---- MODULE Spec2Model ----
(***************************************************************************)
(* Model of the kentik/golog logging pipeline (package logger).            *)
(*                                                                         *)
(* Producers call Logger methods / LogNoTee, which run Logger.log and      *)
(* queueMsg; one goroutine runs logWriter; Close closes the messages       *)
(* channel.  Each channel operation of the Go code is one atomic step.     *)
(* A Go panic that is not recovered ends the process: the model records it *)
(* in `crashed` and no goroutine takes a step afterwards.                  *)
(*                                                                         *)
(* Specifications: Spec, FairSpec and SpecNoClose (the pipeline with the   *)
(* tee and Close), LevelSpec and SampleSpec (Logger.log's level policy and *)
(* Access sampling), DrainSpec (DrainContext).                             *)
(***************************************************************************)
EXTENDS Integers, Sequences, FiniteSets, TLC

\* ---------------------------------------------------------------- bounds
NumMessages == 2      \* pool size (10*1024 in the source), scaled down
NumProducers == 2     \* goroutines calling log methods
MaxLogs == 3          \* log calls the producers make in one run
TeeCap == 1           \* capacity of the channel handed to SetTee
MaxCalls == 3         \* log calls made in one run of the level-policy model
MaxAccess == 6        \* Access calls made in one run of the sampling model
MaxSample == 3        \* largest stride handed to SetAccessLogSample
NumDrainers == 2      \* goroutines calling DrainContext
DrainLogs == 2        \* log calls made in one run of the draining model
SinkLogs == 2         \* log calls made in one run of the sink model
MaxEnvLen == 4        \* longest value of KENTIK_LOG_FMT
MaxText == 5          \* longest formatted text, in bytes
FreeLogs == 2         \* log calls made in one run of the double-release model
MaxOverflows == 2     \* overflowing releases in one run of that model
ReclaimLogs == 3      \* log calls made in one run of the buffer-size model
MaxBytes == 2         \* longest rendered message, in bytes
ConfigLogs == 1       \* log calls made in one run of the configuration model
MaxNameErrs == 1      \* failing SetLogName calls in one run of that model
AccountLogs == 4      \* log calls made in one run of the accounting model
MaxTrim == 6          \* bytes in a buffer handed to trimNewLines
reclaimThreshold == 2 \* capacity above which freeMsg reallocates (5120 in the
                      \* source), scaled down

\* ------------------------------------------------------- program constants
LvlAccess == -1
LvlOff == 0
LvlPanic == 1
LvlError == 2
LvlWarn == 3
LvlInfo == 4
LvlDebug == 5

Buffers == 1..NumMessages
Producers == 1..NumProducers
NoBuf == 0

\* no logEntry: the goroutine is not inside a log call.  An entry carries its
\* tee flag; id (the value of logCount the call obtained) names the message
\* and via names the API the call came through.
NoEntry == [id |-> 0, tee |-> FALSE, via |-> "none"]

\* logMessage.le of a buffer that was never rendered: a nil *logEntry
NilLe == [isNil |-> TRUE, tee |-> FALSE, via |-> "none"]

\* msg.le = le: the pointer to the caller's entry
LeRef(le) == [isNil |-> FALSE, tee |-> le.tee, via |-> le.via]

\* a nil *Logger
NilLogger == [isNil |-> TRUE, level |-> LvlOff, sample |-> 0, sampleCount |-> 0]

\* New(level): a fresh logger with sample stride 1
New(level) ==
  [isNil |-> FALSE, level |-> level, sample |-> 1, sampleCount |-> 0]

\* the values of type Level
LevelSet == {LvlAccess, LvlOff, LvlPanic, LvlError, LvlWarn, LvlInfo, LvlDebug}

\* the loggers of a run: a nil *Logger, the package's OffLogger and a logger
\* `log` the application made with New and configures as it goes
LoggerNames == {"nil", "OffLogger", "log"}

Drainers == 1..NumDrainers

\* KENTIK_LOG_FMT unset, and not yet read by setFormat
NoEnv == [set |-> FALSE, val |-> << >>, read |-> FALSE]

\* no message followed through render and write*
NoText == [pc |-> "none", in |-> << >>, buf |-> << >>, leader |-> FALSE,
           sink |-> "none"]

\* no Access call in progress
NoCall == [l |-> "nil", count |-> 0]

VARIABLES
  messages,           \* chan *logMessage: the pending queue (buffer ids)
  freeMessages,       \* chan *logMessage: the free queue (buffer ids)
  closed,             \* close(messages) has been executed
  logWriterFinished,  \* close(logWriterFinished) has been executed
  msgArr,             \* the pooled logMessage structs
  logCount, dropCount, errCount,
  stdhdl,             \* TRUE iff stdhdl != nil
  customSock,         \* "nil", "open" or "closed"
  logTee,             \* "nil" or "ch": the channel installed by SetTee
  teeq,               \* contents of the tee channel
  pc,                 \* per producer: where its goroutine is in queueMsg
  held,               \* per producer: the buffer queueMsg's msg points to
  ent,                \* per producer: the logEntry of the call in progress
  afterClose,         \* per producer: the call in progress began after Close
  wpc, wmsg,          \* logWriter: its position, the buffer of this iteration
  wtee,               \* logWriter: what writeTee did in this iteration
  wheld, went,        \* logWriter: buffer and entry of its LogNoTee warning
  cpc,                \* the goroutine calling Close
  crashed,            \* an unrecovered panic has ended the process
  pushed,             \* history: ids in the order they were sent on messages
  written,            \* history: ids in the order a sink write was attempted
  loggers,            \* the *Logger objects: level, sample, sampleCount
  lcall,              \* per producer: the Access call between its atomic
                      \* count and its test of l.sample
  last,               \* history: the number of calls of Logger.log so far
                      \* and the logger of the latest one
  accLog,             \* history: per logger, the outcome of its Access
                      \* calls, indexed by the count each call obtained
  dpc,                \* per DrainContext caller: its position in the loop
  dctx,               \* per DrainContext caller: the state of its context
  qres,               \* per producer: what its latest queueMsg returned
  bsize,              \* per pooled buffer: Len() and Cap() of its Buffer
  fres,               \* what the latest freeMsg returned
  wsink,              \* logWriter: the write function chosen so far
  wseen,              \* history: the sinks the configuration has selected
                      \* since logWriter began to choose
  env,                \* the environment variable KENTIK_LOG_FMT
  format,             \* the formatter setFormat installed
  txt                 \* a message on its way through render and write*

vars == << messages, freeMessages, closed, logWriterFinished, msgArr,
           logCount, dropCount, errCount, stdhdl, customSock, logTee, teeq,
           pc, held, ent, afterClose, wpc, wmsg, wtee, wheld, went, cpc,
           crashed,
           pushed, written, loggers, lcall, last, accLog, dpc, dctx,
           qres, bsize, fres, wsink, wseen, env, format, txt >>

\* ------------------------------------------------------------ Level Policy
\* ---- variants of Logger.log's switch used to test the properties below ----
\* the stride test made on count % (sample + 1)
PolicyPass_NextStride(l, level, count) ==
  IF l.isNil THEN FALSE
  ELSE IF level = LvlAccess
       THEN ~(l.sample = 0 \/ count % (l.sample + 1) # 0)
       ELSE ~(level > l.level \/ level = LvlOff)

\* Access calls rejected by a logger whose threshold is off
PolicyPass_AccessUnderThreshold(l, level, count) ==
  IF l.isNil THEN FALSE
  ELSE IF level = LvlAccess
       THEN ~(l.sample = 0 \/ count % l.sample # 0) /\ l.level # LvlOff
       ELSE ~(level > l.level \/ level = LvlOff)

\* the threshold compared with ">=": a call at the threshold is rejected
PolicyPass_BelowThreshold(l, level, count) ==
  IF l.isNil THEN FALSE
  ELSE IF level = LvlAccess
       THEN ~(l.sample = 0 \/ count % l.sample # 0)
       ELSE ~(level >= l.level \/ level = LvlOff)

\* Logger.log's switch: TRUE iff the call goes on to queueMsg.  `count` is the
\* value atomic.AddUint64(&l.sampleCount, 1) returned (used for Access only).
PolicyPass(l, level, count) ==
  IF l.isNil THEN FALSE
  ELSE IF level = LvlAccess
       THEN ~(l.sample = 0 \/ count % l.sample # 0)
       ELSE ~(level > l.level \/ level = LvlOff)

\* ---------------------------------------------------------------- helpers
\* render: the buffer after format() wrote the entry into it
Rendered(le, addLeader) ==
  [text |-> le.id, le |-> LeRef(le), leader |-> addLeader]

\* freeMsg's Reset / reallocation: content cleared, msg.le left as it is
Cleared(m) == [text |-> 0, le |-> m.le, leader |-> FALSE]

\* the calls the producers make:
\*   log.Infof / log.Debugf on a logger made by New(Levels.Info),
\*   LogNoTee(Levels.Error, ...), and Infof on a nil *Logger
Calls ==
  { [via |-> "Infof",    l |-> New(LvlInfo), lvl |-> LvlInfo,  tee |-> TRUE],
    [via |-> "Debugf",   l |-> New(LvlInfo), lvl |-> LvlDebug, tee |-> TRUE],
    [via |-> "LogNoTee", l |-> New(LvlInfo), lvl |-> LvlError, tee |-> FALSE],
    [via |-> "nil",      l |-> NilLogger,    lvl |-> LvlInfo,  tee |-> TRUE] }

\* -------------------------------------------------------------------- Init
\* setup(): every logMessage of msgArr went through freeMsg, logWriter started
Init ==
  /\ messages = << >>
  /\ freeMessages = [i \in 1..NumMessages |-> i]
  /\ closed = FALSE
  /\ logWriterFinished = FALSE
  /\ msgArr = [b \in Buffers |-> [text |-> 0, le |-> NilLe, leader |-> FALSE]]
  /\ logCount = 0 /\ dropCount = 0 /\ errCount = 0
  /\ stdhdl = FALSE
  /\ customSock = "nil"
  /\ logTee = "nil"
  /\ teeq = << >>
  /\ pc = [p \in Producers |-> "idle"]
  /\ held = [p \in Producers |-> NoBuf]
  /\ ent = [p \in Producers |-> NoEntry]
  /\ afterClose = [p \in Producers |-> FALSE]
  /\ wpc = "recv" /\ wmsg = NoBuf /\ wtee = "none"
  /\ wheld = NoBuf /\ went = NoEntry
  /\ cpc = "idle"
  /\ crashed = FALSE
  /\ pushed = << >> /\ written = << >>
  /\ loggers = [n \in LoggerNames |->
                  IF n = "nil" THEN NilLogger
                  ELSE IF n = "OffLogger" THEN New(LvlOff) ELSE New(LvlInfo)]
  /\ lcall = [p \in Producers |-> NoCall]
  /\ last = [n |-> 0, l |-> "nil"]
  /\ accLog = [n \in LoggerNames |-> << >>]
  /\ dpc = [d \in Drainers |-> "idle"]
  /\ dctx = [d \in Drainers |-> "live"]
  /\ qres = [p \in Producers |-> "none"]
  /\ bsize = [b \in Buffers |-> [len |-> 0, cap |-> 0]]
  /\ fres = "nil"
  /\ wsink = "none"
  /\ wseen = {}
  /\ env = NoEnv
  /\ format = "asString"
  /\ txt = NoText

poolVars == << messages, freeMessages, msgArr >>
cntVars == << logCount, dropCount, errCount >>
cfgVars == << stdhdl, customSock, logTee >>
prodVars == << pc, held, ent, afterClose >>
wrVars == << wpc, wmsg, wtee, wheld, went >>
histVars == << pushed, written >>
polVars == << loggers, lcall, last, accLog >>
drainVars == << dpc, dctx >>
sizeVars == << qres, bsize, fres >>
sinkVars == << wsink, wseen >>
fmtVars == << env, format, txt >>
detVars == << sizeVars, sinkVars, fmtVars >>
extVars == << polVars, drainVars, detVars >>

\* ------------------------------------------------------------ the producers
\* ---- variants of queueMsg used to test the properties below ----
\* queueMsg with a plain receive "msg = <-freeMessages" (no default case):
\* the call waits for a free buffer
QAcquire_Blocking(p, c) ==
  /\ ~crashed
  /\ pc[p] = "idle"
  /\ logCount < MaxLogs
  /\ PolicyPass(c.l, c.lvl, 0)
  /\ freeMessages # << >>
  /\ logCount' = logCount + 1
  /\ held' = [held EXCEPT ![p] = Head(freeMessages)]
  /\ freeMessages' = Tail(freeMessages)
  /\ ent' = [ent EXCEPT ![p] =
               [id |-> logCount + 1, tee |-> c.tee, via |-> c.via]]
  /\ afterClose' = [afterClose EXCEPT ![p] = closed]
  /\ pc' = [pc EXCEPT ![p] = "render"]
  /\ UNCHANGED << messages, msgArr, closed, logWriterFinished, dropCount,
                  errCount, cfgVars, teeq, wrVars, cpc, crashed, histVars >>
  /\ UNCHANGED extVars

\* queueMsg whose default case returns without counting the drop
QAcquire_DropUncounted(p, c) ==
  /\ ~crashed
  /\ pc[p] = "idle"
  /\ logCount < MaxLogs
  /\ PolicyPass(c.l, c.lvl, 0)
  /\ logCount' = logCount + 1
  /\ IF freeMessages = << >>
     THEN UNCHANGED << freeMessages, pc, held, ent, afterClose >>
     ELSE /\ held' = [held EXCEPT ![p] = Head(freeMessages)]
          /\ freeMessages' = Tail(freeMessages)
          /\ ent' = [ent EXCEPT ![p] =
                       [id |-> logCount + 1, tee |-> c.tee, via |-> c.via]]
          /\ afterClose' = [afterClose EXCEPT ![p] = closed]
          /\ pc' = [pc EXCEPT ![p] = "render"]
  /\ UNCHANGED << messages, msgArr, closed, logWriterFinished, dropCount,
                  errCount, cfgVars, teeq, wrVars, cpc, crashed, histVars >>
  /\ UNCHANGED extVars

\* queueMsg that also releases the buffer after a successful send (a freeMsg
\* left on the success path)
QPush_AlsoFrees(p) ==
  /\ ~crashed
  /\ pc[p] = "push"
  /\ ~closed
  /\ Len(messages) < NumMessages
  /\ messages' = Append(messages, held[p])
  /\ freeMessages' = Append(freeMessages, held[p])
  /\ pushed' = Append(pushed, ent[p].id)
  /\ held' = [held EXCEPT ![p] = NoBuf]
  /\ ent' = [ent EXCEPT ![p] = NoEntry]
  /\ afterClose' = [afterClose EXCEPT ![p] = FALSE]
  /\ pc' = [pc EXCEPT ![p] = "idle"]
  /\ UNCHANGED << msgArr, closed, logWriterFinished, cntVars, cfgVars, teeq,
                  wrVars, cpc, crashed, written >>
  /\ UNCHANGED extVars

\* A log call rejected by Logger.log's switch (nil logger, level above the
\* threshold): it returns before queueMsg and changes nothing.
LogRejected(p, c) ==
  /\ ~crashed
  /\ pc[p] = "idle"
  /\ ~PolicyPass(c.l, c.lvl, 0)
  /\ UNCHANGED vars

\* Logger.log passing the policy, then queueMsg up to its first select:
\*   atomic.AddUint64(&logCount, 1)
\*   select { case msg = <-freeMessages: ; default: dropCount++; return }
\* (the increment commutes with every other step, so it is taken together
\* with the receive)
QAcquire(p, c) ==
  /\ ~crashed
  /\ pc[p] = "idle"
  /\ logCount < MaxLogs
  /\ PolicyPass(c.l, c.lvl, 0)
  /\ logCount' = logCount + 1
  /\ IF freeMessages = << >>
     THEN /\ dropCount' = dropCount + 1
          /\ UNCHANGED << freeMessages, pc, held, ent, afterClose >>
     ELSE /\ held' = [held EXCEPT ![p] = Head(freeMessages)]
          /\ freeMessages' = Tail(freeMessages)
          /\ ent' = [ent EXCEPT ![p] =
                       [id |-> logCount + 1, tee |-> c.tee, via |-> c.via]]
          /\ afterClose' = [afterClose EXCEPT ![p] = closed]
          /\ pc' = [pc EXCEPT ![p] = "render"]
          /\ UNCHANGED dropCount
  /\ UNCHANGED << messages, msgArr, closed, logWriterFinished, errCount,
                  cfgVars, teeq, wrVars, cpc, crashed, histVars >>
  /\ UNCHANGED extVars

\* queueMsg: render(msg, le); format gets addLeader = (stdhdl != nil)
QRender(p) ==
  /\ ~crashed
  /\ pc[p] = "render"
  /\ msgArr' = [msgArr EXCEPT ![held[p]] = Rendered(ent[p], stdhdl)]
  /\ pc' = [pc EXCEPT ![p] = "push"]
  /\ UNCHANGED << messages, freeMessages, closed, logWriterFinished, cntVars,
                  cfgVars, teeq, held, ent, afterClose, wrVars, cpc,
                  crashed, histVars >>
  /\ UNCHANGED extVars

\* queueMsg: select { case messages <- msg: ; default: ErrLogFullBuf }
\* A send on a closed channel panics, also inside a select with a default.
QPush(p) ==
  /\ ~crashed
  /\ pc[p] = "push"
  /\ IF closed
     THEN /\ crashed' = TRUE
          /\ pc' = [pc EXCEPT ![p] = "panicked"]
          /\ UNCHANGED << messages, held, ent, afterClose, errCount, pushed >>
     ELSE IF Len(messages) < NumMessages
     THEN /\ messages' = Append(messages, held[p])
          /\ pushed' = Append(pushed, ent[p].id)
          /\ held' = [held EXCEPT ![p] = NoBuf]
          /\ ent' = [ent EXCEPT ![p] = NoEntry]
          /\ afterClose' = [afterClose EXCEPT ![p] = FALSE]
          /\ pc' = [pc EXCEPT ![p] = "idle"]
          /\ UNCHANGED << errCount, crashed >>
     ELSE /\ errCount' = errCount + 1
          /\ held' = [held EXCEPT ![p] = NoBuf]
          /\ ent' = [ent EXCEPT ![p] = NoEntry]
          /\ afterClose' = [afterClose EXCEPT ![p] = FALSE]
          /\ pc' = [pc EXCEPT ![p] = "idle"]
          /\ UNCHANGED << messages, crashed, pushed >>
  /\ UNCHANGED << freeMessages, msgArr, closed, logWriterFinished, logCount,
                  dropCount, cfgVars, teeq, wrVars, cpc, written >>
  /\ UNCHANGED extVars

\* ---- variants of logWriter used to test the properties below ----
\* logWriter taking the newest pending buffer instead of the oldest
WRecv_Lifo ==
  /\ ~crashed
  /\ wpc = "recv"
  /\ IF messages # << >>
     THEN /\ wmsg' = messages[Len(messages)]
          /\ messages' = SubSeq(messages, 1, Len(messages) - 1)
          /\ wpc' = IF logTee # "nil" /\ msgArr[messages[Len(messages)]].le.tee
                    THEN "offer" ELSE "write"
     ELSE /\ closed
          /\ wpc' = "exit"
          /\ UNCHANGED << wmsg, messages >>
  /\ UNCHANGED << freeMessages, msgArr, closed, logWriterFinished, cntVars,
                  cfgVars, teeq, prodVars, wtee, wheld, went, cpc, crashed,
                  histVars >>
  /\ UNCHANGED extVars

\* logWriter testing only "logTee != nil" before writeTee
WRecv_IgnoresTeeFlag ==
  /\ ~crashed
  /\ wpc = "recv"
  /\ IF messages # << >>
     THEN /\ wmsg' = Head(messages)
          /\ messages' = Tail(messages)
          /\ wpc' = IF logTee # "nil" THEN "offer" ELSE "write"
     ELSE /\ closed
          /\ wpc' = "exit"
          /\ UNCHANGED << wmsg, messages >>
  /\ UNCHANGED << freeMessages, msgArr, closed, logWriterFinished, cntVars,
                  cfgVars, teeq, prodVars, wtee, wheld, went, cpc, crashed,
                  histVars >>
  /\ UNCHANGED extVars

\* logWriter calling the write function again after a failed write
WWrite_Retry(ok) ==
  /\ ~crashed
  /\ wpc = "write"
  /\ written' = Append(written, msgArr[wmsg].text)
  /\ errCount' = IF ok THEN errCount ELSE errCount + 1
  /\ wpc' = IF ok \/ Len(written) >= 2 * MaxLogs THEN "free" ELSE "write"
  /\ UNCHANGED << poolVars, closed, logWriterFinished, logCount, dropCount,
                  cfgVars, teeq, prodVars, wmsg, wtee, wheld, went, cpc,
                  crashed, pushed >>
  /\ UNCHANGED extVars

\* logWriter dropping the buffer at the end of the iteration instead of
\* handing it to freeMsg
WFree_Leak ==
  /\ ~crashed
  /\ wpc = "free"
  /\ wmsg' = NoBuf
  /\ wtee' = "none"
  /\ wpc' = "recv"
  /\ UNCHANGED << poolVars, closed, logWriterFinished, cntVars, cfgVars, teeq,
                  prodVars, wheld, went, cpc, crashed, histVars >>
  /\ UNCHANGED extVars

\* logWriter reading the oldest pending buffer without taking it off the
\* pending set
WRecv_Peek ==
  /\ ~crashed
  /\ wpc = "recv"
  /\ IF messages # << >>
     THEN /\ wmsg' = Head(messages)
          /\ wpc' = IF logTee # "nil" /\ msgArr[Head(messages)].le.tee
                    THEN "offer" ELSE "write"
     ELSE /\ closed
          /\ wpc' = "exit"
          /\ UNCHANGED wmsg
  /\ UNCHANGED << poolVars, closed, logWriterFinished, cntVars, cfgVars, teeq,
                  prodVars, wtee, wheld, went, cpc, crashed, histVars >>
  /\ UNCHANGED extVars

\* logWriter reporting the tee failure through a Logger method (Warnf), which
\* marks the warning tee-eligible
WWarnAcquire_Teed ==
  /\ ~crashed
  /\ wpc = "warn"
  /\ logCount' = logCount + 1
  /\ IF freeMessages = << >>
     THEN /\ dropCount' = dropCount + 1
          /\ errCount' = errCount + 1
          /\ wpc' = "write"
          /\ UNCHANGED << freeMessages, wheld, went >>
     ELSE /\ wheld' = Head(freeMessages)
          /\ freeMessages' = Tail(freeMessages)
          /\ went' = [id |-> logCount + 1, tee |-> TRUE, via |-> "Warnf"]
          /\ wpc' = "warnRender"
          /\ UNCHANGED << dropCount, errCount >>
  /\ UNCHANGED << messages, msgArr, closed, logWriterFinished, cfgVars, teeq,
                  prodVars, wmsg, wtee, cpc, crashed, histVars >>
  /\ UNCHANGED extVars

\* ------------------------------------------------------------- logWriter
\* for msg := range messages: receive the next pending buffer and evaluate
\*   if logTee != nil && msg.le.tee
\* or leave the loop once the channel is closed and empty
WRecv ==
  /\ ~crashed
  /\ wpc = "recv"
  /\ IF messages # << >>
     THEN /\ wmsg' = Head(messages)
          /\ messages' = Tail(messages)
          /\ wpc' = IF logTee # "nil" /\ msgArr[Head(messages)].le.tee
                    THEN "offer" ELSE "write"
     ELSE /\ closed
          /\ wpc' = "exit"
          /\ UNCHANGED << wmsg, messages >>
  /\ UNCHANGED << freeMessages, msgArr, closed, logWriterFinished, cntVars,
                  cfgVars, teeq, prodVars, wtee, wheld, went, cpc, crashed,
                  histVars >>
  /\ UNCHANGED extVars

\* writeTee: select { case logTee <- string(msg.Bytes()): ; default: error }
\* (a send on a nil channel is never ready, so the default is taken)
WOffer ==
  /\ ~crashed
  /\ wpc = "offer"
  /\ IF logTee # "nil" /\ Len(teeq) < TeeCap
     THEN /\ teeq' = Append(teeq, msgArr[wmsg].text)
          /\ wtee' = "sent"
          /\ wpc' = "write"
     ELSE /\ wtee' = IF logTee = "nil" THEN "nil" ELSE "full"
          /\ wpc' = "warn"
          /\ UNCHANGED teeq
  /\ UNCHANGED << poolVars, closed, logWriterFinished, cntVars, cfgVars,
                  prodVars, wmsg, wheld, went, cpc, crashed, histVars >>
  /\ UNCHANGED extVars

\* LogNoTee(Levels.Warn, "[meta log]", ...) after a failed tee offer:
\* New(Levels.Info).log(Warn, ..., tee = false), then queueMsg up to its first
\* select.  When queueMsg returns without a buffer, logWriter goes on with
\* atomic.AddUint64(&errCount, 1).
WWarnAcquire ==
  /\ ~crashed
  /\ wpc = "warn"
  /\ IF ~PolicyPass(New(LvlInfo), LvlWarn, 0)
     THEN /\ errCount' = errCount + 1
          /\ wpc' = "write"
          /\ UNCHANGED << logCount, dropCount, freeMessages, wheld, went >>
     ELSE /\ logCount' = logCount + 1
          /\ IF freeMessages = << >>
             THEN /\ dropCount' = dropCount + 1
                  /\ errCount' = errCount + 1
                  /\ wpc' = "write"
                  /\ UNCHANGED << freeMessages, wheld, went >>
             ELSE /\ wheld' = Head(freeMessages)
                  /\ freeMessages' = Tail(freeMessages)
                  /\ went' = [id |-> logCount + 1, tee |-> FALSE,
                              via |-> "LogNoTee"]
                  /\ wpc' = "warnRender"
                  /\ UNCHANGED << dropCount, errCount >>
  /\ UNCHANGED << messages, msgArr, closed, logWriterFinished, cfgVars, teeq,
                  prodVars, wmsg, wtee, cpc, crashed, histVars >>
  /\ UNCHANGED extVars

\* queueMsg inside logWriter: render
WWarnRender ==
  /\ ~crashed
  /\ wpc = "warnRender"
  /\ msgArr' = [msgArr EXCEPT ![wheld] = Rendered(went, stdhdl)]
  /\ wpc' = "warnPush"
  /\ UNCHANGED << messages, freeMessages, closed, logWriterFinished, cntVars,
                  cfgVars, teeq, prodVars, wmsg, wtee, wheld, went, cpc,
                  crashed, histVars >>
  /\ UNCHANGED extVars

\* queueMsg inside logWriter: the send on messages, then logWriter's own
\* atomic.AddUint64(&errCount, 1) for the tee failure
WWarnPush ==
  /\ ~crashed
  /\ wpc = "warnPush"
  /\ IF closed
     THEN /\ crashed' = TRUE
          /\ wpc' = "panicked"
          /\ UNCHANGED << messages, wheld, went, errCount, pushed >>
     ELSE IF Len(messages) < NumMessages
     THEN /\ messages' = Append(messages, wheld)
          /\ pushed' = Append(pushed, went.id)
          /\ wheld' = NoBuf
          /\ went' = NoEntry
          /\ errCount' = errCount + 1
          /\ wpc' = "write"
          /\ UNCHANGED crashed
     ELSE /\ errCount' = errCount + 2
          /\ wheld' = NoBuf
          /\ went' = NoEntry
          /\ wpc' = "write"
          /\ UNCHANGED << messages, crashed, pushed >>
  /\ UNCHANGED << freeMessages, msgArr, closed, logWriterFinished, logCount,
                  dropCount, cfgVars, teeq, prodVars, wmsg, wtee, cpc,
                  written >>
  /\ UNCHANGED extVars

\* the sink chosen from the configuration as it is now
SelectSink(std, sock) ==
  IF std THEN "std" ELSE IF sock = "nil" THEN "syslog" ELSE "sock"

\* the write function is chosen and called; it returns with or without an
\* error (until this step is taken logWriter is inside the blocking write)
WWrite(ok) ==
  /\ ~crashed
  /\ wpc = "write"
  /\ written' = Append(written, msgArr[wmsg].text)
  /\ errCount' = IF ok THEN errCount ELSE errCount + 1
  /\ wpc' = "free"
  /\ UNCHANGED << poolVars, closed, logWriterFinished, logCount, dropCount,
                  cfgVars, teeq, prodVars, wmsg, wtee, wheld, went, cpc,
                  crashed, pushed >>
  /\ UNCHANGED extVars

\* freeMsg(msg) at the end of the iteration
WFree ==
  /\ ~crashed
  /\ wpc = "free"
  /\ msgArr' = [msgArr EXCEPT ![wmsg] = Cleared(msgArr[wmsg])]
  /\ IF Len(freeMessages) < NumMessages
     THEN /\ freeMessages' = Append(freeMessages, wmsg)
          /\ UNCHANGED errCount
     ELSE /\ errCount' = errCount + 1
          /\ UNCHANGED freeMessages
  /\ wmsg' = NoBuf
  /\ wtee' = "none"
  /\ wpc' = "recv"
  /\ UNCHANGED << messages, closed, logWriterFinished, logCount, dropCount,
                  cfgVars, teeq, prodVars, wheld, went, cpc, crashed,
                  histVars >>
  /\ UNCHANGED extVars

\* after the loop: customSock.Close() if set, close(logWriterFinished)
WExit ==
  /\ ~crashed
  /\ wpc = "exit"
  /\ customSock' = IF customSock # "nil" THEN "closed" ELSE customSock
  /\ logWriterFinished' = TRUE
  /\ wpc' = "finished"
  /\ UNCHANGED << poolVars, closed, cntVars, stdhdl, logTee, teeq, prodVars,
                  wmsg, wtee, wheld, went, cpc, crashed, histVars >>
  /\ UNCHANGED extVars

\* ----------------------------------------------------------- configuration
\* the sinks the configuration has selected while logWriter was choosing,
\* once the configuration has become (std, sock)
Seen(std, sock) ==
  IF wsink = "reading" THEN wseen \cup {SelectSink(std, sock)} ELSE wseen

\* SetStdOut: stdhdl = os.Stdout
SetStdOut ==
  /\ ~crashed
  /\ ~stdhdl
  /\ stdhdl' = TRUE
  /\ wseen' = Seen(TRUE, customSock)
  /\ UNCHANGED << poolVars, closed, logWriterFinished, cntVars, customSock,
                  logTee, teeq, prodVars, wrVars, cpc, crashed, histVars >>
  /\ UNCHANGED << polVars, drainVars, sizeVars, wsink, fmtVars >>

\* customSock, err = net.Dial(...): nil when the dial fails
SetCustomSocket(ok) ==
  /\ ~crashed
  /\ customSock' = IF ok THEN "open" ELSE "nil"
  /\ customSock' # customSock
  /\ wseen' = Seen(stdhdl, customSock')
  /\ UNCHANGED << poolVars, closed, logWriterFinished, cntVars, stdhdl,
                  logTee, teeq, prodVars, wrVars, cpc, crashed, histVars >>
  /\ UNCHANGED << polVars, drainVars, sizeVars, wsink, fmtVars >>

\* ---- variant of SetLogName used to test the properties below ----
\* SetLogName counting a failed openlog as a drop as well
SetLogName_CountsDrop(ok, max) ==
  /\ ~crashed
  /\ errCount < max
  /\ IF stdhdl \/ ok
     THEN UNCHANGED << errCount, dropCount >>
     ELSE errCount' = errCount + 1 /\ dropCount' = dropCount + 1
  /\ UNCHANGED << poolVars, closed, logWriterFinished, logCount, cfgVars,
                  teeq, prodVars, wrVars, cpc, crashed, histVars >>
  /\ UNCHANGED extVars

\* SetLogName(p): the name is stored; unless a direct stream is set, openlog
\* is called, and its failure is counted:
\*   if stdhdl != nil { return }
\*   _, err = C.openlog(...); if err != nil { atomic.AddUint64(&errCount, 1) }
\* (max caps the number of failures of a run)
SetLogName(ok, max) ==
  /\ ~crashed
  /\ errCount < max
  /\ errCount' = IF stdhdl \/ ok THEN errCount ELSE errCount + 1
  /\ UNCHANGED << poolVars, closed, logWriterFinished, logCount, dropCount,
                  cfgVars, teeq, prodVars, wrVars, cpc, crashed, histVars >>
  /\ UNCHANGED extVars

\* Stats(): three atomic loads and len(messages); nothing is written
Stats ==
  /\ ~crashed
  /\ UNCHANGED vars

SetTee(tee) ==
  /\ ~crashed
  /\ logTee # tee
  /\ logTee' = tee
  /\ UNCHANGED << poolVars, closed, logWriterFinished, cntVars, stdhdl,
                  customSock, teeq, prodVars, wrVars, cpc, crashed, histVars >>
  /\ UNCHANGED extVars

\* the owner of the tee channel receives from it
TeeRecv ==
  /\ ~crashed
  /\ teeq # << >>
  /\ teeq' = Tail(teeq)
  /\ UNCHANGED << poolVars, closed, logWriterFinished, cntVars, cfgVars,
                  prodVars, wrVars, cpc, crashed, histVars >>
  /\ UNCHANGED extVars

\* -------------------------------------------------------------------- Close
\* Close: close(messages), then wait on logWriterFinished or ctx.Done()
CloseCall ==
  /\ ~crashed
  /\ cpc = "idle"
  /\ closed' = TRUE
  /\ cpc' = "wait"
  /\ UNCHANGED << poolVars, logWriterFinished, cntVars, cfgVars, teeq,
                  prodVars, wrVars, crashed, histVars >>
  /\ UNCHANGED extVars

\* ---- variant of Close used to test the properties below ----
\* Close returning nil without receiving from logWriterFinished
CloseReturn_NoWait ==
  /\ ~crashed
  /\ cpc = "wait"
  /\ cpc' = "nil"
  /\ UNCHANGED << poolVars, closed, logWriterFinished, cntVars, cfgVars, teeq,
                  prodVars, wrVars, crashed, histVars >>
  /\ UNCHANGED extVars

\* case <-logWriterFinished: return nil
CloseReturn ==
  /\ ~crashed
  /\ cpc = "wait"
  /\ logWriterFinished
  /\ cpc' = "nil"
  /\ UNCHANGED << poolVars, closed, logWriterFinished, cntVars, cfgVars, teeq,
                  prodVars, wrVars, crashed, histVars >>
  /\ UNCHANGED extVars

\* case <-ctx.Done(): return ctx.Err()
CloseCancel ==
  /\ ~crashed
  /\ cpc = "wait"
  /\ cpc' = "err"
  /\ UNCHANGED << poolVars, closed, logWriterFinished, cntVars, cfgVars, teeq,
                  prodVars, wrVars, crashed, histVars >>
  /\ UNCHANGED extVars

\* --------------------------------------------------------------- Logger.log
\* queueMsg up to its first select, entered by producer p from Logger.log:
\*   atomic.AddUint64(&logCount, 1)
\*   select { case msg = <-freeMessages: ; default: dropCount++; return }
Enter(p, tee, via) ==
  /\ logCount' = logCount + 1
  /\ IF freeMessages = << >>
     THEN /\ dropCount' = dropCount + 1
          /\ pc' = [pc EXCEPT ![p] = "idle"]
          /\ UNCHANGED << freeMessages, held, ent, afterClose >>
     ELSE /\ held' = [held EXCEPT ![p] = Head(freeMessages)]
          /\ freeMessages' = Tail(freeMessages)
          /\ ent' = [ent EXCEPT ![p] =
                       [id |-> logCount + 1, tee |-> tee, via |-> via]]
          /\ afterClose' = [afterClose EXCEPT ![p] = closed]
          /\ pc' = [pc EXCEPT ![p] = "render"]
          /\ UNCHANGED dropCount

\* ---- variant of Logger.log used to test the properties below ----
\* Logger.log counting a drop when its switch rejects the call
Return_CountsDrop(p) ==
  /\ pc' = [pc EXCEPT ![p] = "idle"]
  /\ dropCount' = dropCount + 1
  /\ UNCHANGED << freeMessages, held, ent, afterClose, logCount >>

\* Logger.log returning from its switch without calling queueMsg
Return(p) ==
  /\ pc' = [pc EXCEPT ![p] = "idle"]
  /\ UNCHANGED << freeMessages, held, ent, afterClose, logCount, dropCount >>

\* ---- variant of Logger.log used to test the properties below ----
\* Logger.log without its case "l == nil": reading l.level through the nil
\* pointer panics
LogCall_NoNilCase(p, l, lvl) ==
  /\ ~crashed
  /\ pc[p] = "idle"
  /\ last.n < MaxCalls
  /\ loggers[l].isNil \/ lvl # LvlAccess
  /\ last' = [n |-> last.n + 1, l |-> l]
  /\ IF loggers[l].isNil
     THEN /\ crashed' = TRUE
          /\ pc' = [pc EXCEPT ![p] = "panicked"]
          /\ UNCHANGED << freeMessages, held, ent, afterClose, logCount,
                          dropCount >>
     ELSE /\ UNCHANGED crashed
          /\ IF PolicyPass(loggers[l], lvl, 0)
             THEN Enter(p, TRUE, "Printf")
             ELSE Return(p)
  /\ UNCHANGED << messages, msgArr, closed, logWriterFinished, errCount,
                  cfgVars, teeq, wrVars, cpc, histVars, loggers, lcall,
                  accLog, drainVars >>
  /\ UNCHANGED detVars

\* l.Printf(lvl, ...) taking the case "l == nil" or, for a level other than
\* Access, the case "level > l.level, level == Levels.Off" or no case at all:
\* the whole of Logger.log, and queueMsg up to its first select
LogCall(p, l, lvl) ==
  /\ ~crashed
  /\ pc[p] = "idle"
  /\ last.n < MaxCalls
  /\ loggers[l].isNil \/ lvl # LvlAccess
  /\ last' = [n |-> last.n + 1, l |-> l]
  /\ IF PolicyPass(loggers[l], lvl, 0)
     THEN Enter(p, TRUE, "Printf")
     ELSE Return(p)
  /\ UNCHANGED << messages, msgArr, closed, logWriterFinished, errCount,
                  cfgVars, teeq, wrVars, cpc, crashed, histVars, loggers,
                  lcall, accLog, drainVars >>
  /\ UNCHANGED detVars

\* l.Printf(Levels.Access, ...) on a non-nil logger, first half:
\*   count := atomic.AddUint64(&l.sampleCount, 1)
\* (max caps the number of calls of a run)
LogAccess(p, l, max) ==
  /\ ~crashed
  /\ pc[p] = "idle"
  /\ last.n < max
  /\ ~loggers[l].isNil
  /\ last' = [n |-> last.n + 1, l |-> l]
  /\ loggers' = [loggers EXCEPT ![l].sampleCount = @ + 1]
  /\ lcall' = [lcall EXCEPT ![p] =
                 [l |-> l, count |-> loggers[l].sampleCount + 1]]
  /\ accLog' = [accLog EXCEPT ![l] =
                  Append(@, "pending")]
  /\ pc' = [pc EXCEPT ![p] = "sample"]
  /\ UNCHANGED << poolVars, closed, logWriterFinished, cntVars, cfgVars, teeq,
                  held, ent, afterClose, wrVars, cpc, crashed, histVars, drainVars >>
  /\ UNCHANGED detVars

\* second half: if l.sample == 0 || count%l.sample != 0 { return }, and
\* otherwise queueMsg up to its first select
LogSample(p) ==
  /\ ~crashed
  /\ pc[p] = "sample"
  /\ LET l == lcall[p].l
         pass == PolicyPass(loggers[l], LvlAccess, lcall[p].count) IN
       /\ accLog' = [accLog EXCEPT ![l][lcall[p].count] =
                       IF pass THEN "accepted" ELSE "rejected"]
       /\ IF pass THEN Enter(p, TRUE, "Printf") ELSE Return(p)
  /\ lcall' = [lcall EXCEPT ![p] = NoCall]
  /\ UNCHANGED << messages, msgArr, closed, logWriterFinished, errCount,
                  cfgVars, teeq, wrVars, cpc, crashed, histVars, loggers,
                  last, drainVars >>
  /\ UNCHANGED detVars

\* l.SetLevel(level) on the application's logger
SetLevel(l, level) ==
  /\ ~crashed
  /\ ~loggers[l].isNil
  /\ loggers[l].level # level
  /\ loggers' = [loggers EXCEPT ![l].level = level]
  /\ UNCHANGED << poolVars, closed, logWriterFinished, cntVars, cfgVars, teeq,
                  prodVars, wrVars, cpc, crashed, histVars, lcall, last,
                  accLog, drainVars >>
  /\ UNCHANGED detVars

\* l.SetAccessLogSample(sample) on the application's logger, which sets the
\* stride before it logs
SetAccessLogSample(l, sample) ==
  /\ ~crashed
  /\ ~loggers[l].isNil
  /\ loggers[l].sampleCount = 0
  /\ loggers[l].sample # sample
  /\ loggers' = [loggers EXCEPT ![l].sample = sample]
  /\ UNCHANGED << poolVars, closed, logWriterFinished, cntVars, cfgVars, teeq,
                  prodVars, wrVars, cpc, crashed, histVars, lcall, last,
                  accLog, drainVars >>
  /\ UNCHANGED detVars

\* ------------------------------------------------------------ DrainContext
\* ---- variants of DrainContext used to test the properties below ----
\* the loop condition without its test of freeMessages:
\*   for ctx.Err() == nil && len(messages) > 0
DrainCond_PendingOnly(d) ==
  /\ ~crashed
  /\ dpc[d] = "loop"
  /\ dpc' = [dpc EXCEPT ![d] =
               IF dctx[d] # "live" THEN "err"
               ELSE IF Len(messages) > 0 THEN "sleep" ELSE "nil"]
  /\ UNCHANGED << poolVars, closed, logWriterFinished, cntVars, cfgVars, teeq,
                  prodVars, wrVars, cpc, crashed, histVars, polVars, dctx >>
  /\ UNCHANGED detVars

\* the loop condition testing the queues before the context:
\*   for (len(messages) > 0 || ...) && ctx.Err() == nil
DrainCond_QueuesFirst(d) ==
  /\ ~crashed
  /\ dpc[d] = "loop"
  /\ dpc' = [dpc EXCEPT ![d] =
               IF Len(messages) > 0 THEN "sleep" ELSE "lenFree"]
  /\ UNCHANGED << poolVars, closed, logWriterFinished, cntVars, cfgVars, teeq,
                  prodVars, wrVars, cpc, crashed, histVars, polVars, dctx >>
  /\ UNCHANGED detVars

\* the loop condition with "len(freeMessages) <= cap(freeMessages)", which
\* is always true
DrainLenFree_AtMostCap(d) ==
  /\ ~crashed
  /\ dpc[d] = "lenFree"
  /\ dpc' = [dpc EXCEPT ![d] =
               IF Len(freeMessages) <= NumMessages THEN "sleep"
               ELSE IF dctx[d] = "live" THEN "nil" ELSE "err"]
  /\ UNCHANGED << poolVars, closed, logWriterFinished, cntVars, cfgVars, teeq,
                  prodVars, wrVars, cpc, crashed, histVars, polVars, dctx >>
  /\ UNCHANGED detVars

\* DrainContext(ctx) is called, with a context that is already done (its
\* deadline passed, or cancelled) or with a live one
DrainCall(d, done) ==
  /\ ~crashed
  /\ dpc[d] = "idle"
  /\ dpc' = [dpc EXCEPT ![d] = "loop"]
  /\ dctx' = [dctx EXCEPT ![d] = IF done THEN "expired" ELSE "live"]
  /\ UNCHANGED << poolVars, closed, logWriterFinished, cntVars, cfgVars, teeq,
                  prodVars, wrVars, cpc, crashed, histVars, polVars >>
  /\ UNCHANGED detVars

\* the context of a DrainContext call in progress is cancelled or times out
DrainCancel(d) ==
  /\ ~crashed
  /\ dpc[d] \in {"loop", "lenFree", "sleep"}
  /\ dctx[d] = "live"
  /\ dctx' = [dctx EXCEPT ![d] = "cancelled"]
  /\ UNCHANGED << poolVars, closed, logWriterFinished, cntVars, cfgVars, teeq,
                  prodVars, wrVars, cpc, crashed, histVars, polVars, dpc >>
  /\ UNCHANGED detVars

\* the loop condition, first part:  ctx.Err() == nil && (len(messages) > 0 ||
\* When ctx.Err() != nil the loop ends and "return ctx.Err()" returns that
\* error (the error of a context never goes back to nil).
DrainCond(d) ==
  /\ ~crashed
  /\ dpc[d] = "loop"
  /\ dpc' = [dpc EXCEPT ![d] =
               IF dctx[d] # "live" THEN "err"
               ELSE IF Len(messages) > 0 THEN "sleep" ELSE "lenFree"]
  /\ UNCHANGED << poolVars, closed, logWriterFinished, cntVars, cfgVars, teeq,
                  prodVars, wrVars, cpc, crashed, histVars, polVars, dctx >>
  /\ UNCHANGED detVars

\* ---- variant of DrainContext used to test the properties below ----
\* DrainContext that stops polling as soon as the free set is not empty
DrainLenFree_AnyFree(d) ==
  /\ ~crashed
  /\ dpc[d] = "lenFree"
  /\ dpc' = [dpc EXCEPT ![d] =
               IF Len(freeMessages) = 0 THEN "sleep"
               ELSE IF dctx[d] = "live" THEN "nil" ELSE "err"]
  /\ UNCHANGED << poolVars, closed, logWriterFinished, cntVars, cfgVars, teeq,
                  prodVars, wrVars, cpc, crashed, histVars, polVars, dctx >>
  /\ UNCHANGED detVars

\* the loop condition, second part:  len(freeMessages) < cap(freeMessages))
\* When it is false the loop ends and "return ctx.Err()" follows; DrainContext
\* touches no shared state, so the read of ctx.Err() is taken in the same step.
DrainLenFree(d) ==
  /\ ~crashed
  /\ dpc[d] = "lenFree"
  /\ dpc' = [dpc EXCEPT ![d] =
               IF Len(freeMessages) < NumMessages THEN "sleep"
               ELSE IF dctx[d] = "live" THEN "nil" ELSE "err"]
  /\ UNCHANGED << poolVars, closed, logWriterFinished, cntVars, cfgVars, teeq,
                  prodVars, wrVars, cpc, crashed, histVars, polVars, dctx >>
  /\ UNCHANGED detVars

\* <-innerCtx.Done(): the 10ms timer fires, or ctx is done
DrainSleep(d) ==
  /\ ~crashed
  /\ dpc[d] = "sleep"
  /\ dpc' = [dpc EXCEPT ![d] = "loop"]
  /\ UNCHANGED << poolVars, closed, logWriterFinished, cntVars, cfgVars, teeq,
                  prodVars, wrVars, cpc, crashed, histVars, polVars, dctx >>
  /\ UNCHANGED detVars

\* ------------------------------- queueMsg and logWriter, with their results
\* The same handlers with what the steps above leave out: the value queueMsg
\* returns, a format function that fails, the length and capacity of the
\* buffers, and the value freeMsg returns.

\* bytes.Buffer after n more bytes were written to it: the capacity stays
\* when the bytes fit, and the buffer grows to twice its capacity plus n
\* when they do not
Grow(sz, n) ==
  [len |-> sz.len + n,
   cap |-> IF sz.len + n <= sz.cap THEN sz.cap ELSE 2 * sz.cap + n]

\* ---- variants of freeMsg used to test the properties below ----
\* freeMsg that always resets in place
Released_ResetOnly(sz) == [len |-> 0, cap |-> sz.cap]

\* freeMsg that blocks on the send to freeMessages
FreeMsg_Blocking(b, sz, m, errs) ==
  /\ Len(freeMessages) < NumMessages
  /\ bsize' = [bsize EXCEPT ![b] =
                 IF sz.cap > reclaimThreshold
                 THEN [len |-> 0, cap |-> reclaimThreshold]
                 ELSE [len |-> 0, cap |-> sz.cap]]
  /\ msgArr' = [msgArr EXCEPT ![b] = Cleared(m)]
  /\ freeMessages' = Append(freeMessages, b)
  /\ fres' = "nil"
  /\ errCount' = errs

\* freeMsg, the buffer:
\*   if msg.Buffer.Cap() > reclaimThreshold {
\*       msg.Buffer = *bytes.NewBuffer(make([]byte, 0, reclaimThreshold))
\*   } else { msg.Reset() }
Released(sz) ==
  IF sz.cap > reclaimThreshold
  THEN [len |-> 0, cap |-> reclaimThreshold]
  ELSE [len |-> 0, cap |-> sz.cap]

\* freeMsg(msg) for buffer b, whose size is sz and content m, when errCount
\* has reached errs:
\*   select { case freeMessages <- msg: ; default: errCount++; return
\*            ErrFreeMessageOverflow }
FreeMsg(b, sz, m, errs) ==
  /\ bsize' = [bsize EXCEPT ![b] = Released(sz)]
  /\ msgArr' = [msgArr EXCEPT ![b] = Cleared(m)]
  /\ IF Len(freeMessages) < NumMessages
     THEN /\ freeMessages' = Append(freeMessages, b)
          /\ fres' = "nil"
          /\ errCount' = errs
     ELSE /\ UNCHANGED freeMessages
          /\ fres' = "ErrFreeMessageOverflow"
          /\ errCount' = errs + 1

\* ---- variant of queueMsg used to test the properties below ----
\* queueMsg that counts a failed render as a drop and keeps the buffer
Render_FailureDrops(p, ok, n) ==
  /\ ~crashed
  /\ pc[p] = "render"
  /\ IF ok
     THEN /\ msgArr' = [msgArr EXCEPT ![held[p]] = Rendered(ent[p], stdhdl)]
          /\ bsize' = [bsize EXCEPT ![held[p]] = Grow(@, n)]
          /\ pc' = [pc EXCEPT ![p] = "push"]
          /\ UNCHANGED << freeMessages, dropCount, held, ent, afterClose,
                          qres, fres >>
     ELSE /\ dropCount' = dropCount + 1
          /\ qres' = [qres EXCEPT ![p] = "renderErr"]
          /\ held' = [held EXCEPT ![p] = NoBuf]
          /\ ent' = [ent EXCEPT ![p] = NoEntry]
          /\ afterClose' = [afterClose EXCEPT ![p] = FALSE]
          /\ pc' = [pc EXCEPT ![p] = "idle"]
          /\ UNCHANGED << freeMessages, msgArr, bsize, fres >>
  /\ UNCHANGED << messages, closed, logWriterFinished, logCount, errCount,
                  cfgVars, teeq, wrVars, cpc, crashed, histVars >>
  /\ UNCHANGED << polVars, drainVars, sinkVars, fmtVars >>

\* ------------------------------------------------------------- queueMsg
\* log.Infof passing the policy, then queueMsg up to its first select:
\*   atomic.AddUint64(&logCount, 1)
\*   select { case msg = <-freeMessages: ; default: dropCount++; return }
\* The bare return of the default case returns err as declared: nil.
Submit(p, max) ==
  /\ ~crashed
  /\ pc[p] = "idle"
  /\ logCount < max
  /\ Enter(p, TRUE, "Infof")
  /\ qres' = [qres EXCEPT ![p] =
                IF freeMessages = << >> THEN "nil" ELSE "none"]
  /\ UNCHANGED << messages, msgArr, closed, logWriterFinished, errCount,
                  cfgVars, teeq, wrVars, cpc, crashed, histVars >>
  /\ UNCHANGED << polVars, drainVars, bsize, fres, sinkVars, fmtVars >>

\* ---- variant of queueMsg used to test the properties below ----
\* queueMsg returning the render error without counting it
Render_ErrorUncounted(p, ok, n) ==
  /\ ~crashed
  /\ pc[p] = "render"
  /\ IF ok
     THEN /\ msgArr' = [msgArr EXCEPT ![held[p]] = Rendered(ent[p], stdhdl)]
          /\ bsize' = [bsize EXCEPT ![held[p]] = Grow(@, n)]
          /\ pc' = [pc EXCEPT ![p] = "push"]
          /\ UNCHANGED << freeMessages, errCount, held, ent, afterClose,
                          qres, fres >>
     ELSE /\ FreeMsg(held[p], Grow(bsize[held[p]], n),
                     Rendered(ent[p], stdhdl), errCount)
          /\ qres' = [qres EXCEPT ![p] = "renderErr"]
          /\ held' = [held EXCEPT ![p] = NoBuf]
          /\ ent' = [ent EXCEPT ![p] = NoEntry]
          /\ afterClose' = [afterClose EXCEPT ![p] = FALSE]
          /\ pc' = [pc EXCEPT ![p] = "idle"]
  /\ UNCHANGED << messages, closed, logWriterFinished, logCount, dropCount,
                  cfgVars, teeq, wrVars, cpc, crashed, histVars >>
  /\ UNCHANGED << polVars, drainVars, sinkVars, fmtVars >>

\* queueMsg:
\*   if err = render(msg, le); err != nil { errCount++; _ = freeMsg(msg);
\*                                          return }
\* render sets msg.le, calls format, which writes n bytes and returns an
\* error or none (ok), and trims the buffer.
Render(p, ok, n) ==
  /\ ~crashed
  /\ pc[p] = "render"
  /\ IF ok
     THEN /\ msgArr' = [msgArr EXCEPT ![held[p]] = Rendered(ent[p], stdhdl)]
          /\ bsize' = [bsize EXCEPT ![held[p]] = Grow(@, n)]
          /\ pc' = [pc EXCEPT ![p] = "push"]
          /\ UNCHANGED << freeMessages, errCount, held, ent, afterClose,
                          qres, fres >>
     ELSE /\ FreeMsg(held[p], Grow(bsize[held[p]], n),
                     Rendered(ent[p], stdhdl), errCount + 1)
          /\ qres' = [qres EXCEPT ![p] = "renderErr"]
          /\ held' = [held EXCEPT ![p] = NoBuf]
          /\ ent' = [ent EXCEPT ![p] = NoEntry]
          /\ afterClose' = [afterClose EXCEPT ![p] = FALSE]
          /\ pc' = [pc EXCEPT ![p] = "idle"]
  /\ UNCHANGED << messages, closed, logWriterFinished, logCount, dropCount,
                  cfgVars, teeq, wrVars, cpc, crashed, histVars >>
  /\ UNCHANGED << polVars, drainVars, sinkVars, fmtVars >>

\* queueMsg:
\*   select { case messages <- msg: ; default: errCount++;
\*            return ErrLogFullBuf }
\*   return
Push(p) ==
  /\ ~crashed
  /\ pc[p] = "push"
  /\ IF closed
     THEN /\ crashed' = TRUE
          /\ pc' = [pc EXCEPT ![p] = "panicked"]
          /\ UNCHANGED << messages, held, ent, afterClose, errCount, pushed,
                          qres >>
     ELSE /\ IF Len(messages) < NumMessages
             THEN /\ messages' = Append(messages, held[p])
                  /\ pushed' = Append(pushed, ent[p].id)
                  /\ qres' = [qres EXCEPT ![p] = "nil"]
                  /\ UNCHANGED errCount
             ELSE /\ errCount' = errCount + 1
                  /\ qres' = [qres EXCEPT ![p] = "ErrLogFullBuf"]
                  /\ UNCHANGED << messages, pushed >>
          /\ held' = [held EXCEPT ![p] = NoBuf]
          /\ ent' = [ent EXCEPT ![p] = NoEntry]
          /\ afterClose' = [afterClose EXCEPT ![p] = FALSE]
          /\ pc' = [pc EXCEPT ![p] = "idle"]
          /\ UNCHANGED crashed
  /\ UNCHANGED << freeMessages, msgArr, closed, logWriterFinished, logCount,
                  dropCount, cfgVars, teeq, wrVars, cpc, written >>
  /\ UNCHANGED << polVars, drainVars, bsize, fres, sinkVars, fmtVars >>

\* ---- variant of logWriter used to test the properties below ----
\* logWriter putting a message whose write failed back on the pending set
Write_Requeue(ok) ==
  /\ ~crashed
  /\ wpc = "write"
  /\ bsize' = [bsize EXCEPT ![wmsg] = Grow(@, 1)]
  /\ written' = Append(written, msgArr[wmsg].text)
  /\ IF ok \/ Len(messages) >= NumMessages
     THEN /\ errCount' = IF ok THEN errCount ELSE errCount + 1
          /\ wpc' = "free"
          /\ UNCHANGED << messages, wmsg >>
     ELSE /\ errCount' = errCount + 1
          /\ messages' = Append(messages, wmsg)
          /\ wmsg' = NoBuf
          /\ wpc' = "recv"
  /\ UNCHANGED << freeMessages, msgArr, closed, logWriterFinished, logCount,
                  dropCount, cfgVars, teeq, prodVars, wtee, wheld, went, cpc,
                  crashed, pushed >>
  /\ UNCHANGED << polVars, drainVars, qres, fres, sinkVars, fmtVars >>

\* ------------------------------------------------------------- logWriter
\* write(msg): the write function ends the buffer with one more byte
\* (msg.WriteByte) and hands it to the sink, which takes it or fails
Write(ok) ==
  /\ ~crashed
  /\ wpc = "write"
  /\ bsize' = [bsize EXCEPT ![wmsg] = Grow(@, 1)]
  /\ written' = Append(written, msgArr[wmsg].text)
  /\ errCount' = IF ok THEN errCount ELSE errCount + 1
  /\ wpc' = "free"
  /\ UNCHANGED << poolVars, closed, logWriterFinished, logCount, dropCount,
                  cfgVars, teeq, prodVars, wmsg, wtee, wheld, went, cpc,
                  crashed, pushed >>
  /\ UNCHANGED << polVars, drainVars, qres, fres, sinkVars, fmtVars >>

\* freeMsg(msg) at the end of the iteration
Release ==
  /\ ~crashed
  /\ wpc = "free"
  /\ FreeMsg(wmsg, bsize[wmsg], msgArr[wmsg], errCount)
  /\ wmsg' = NoBuf
  /\ wtee' = "none"
  /\ wpc' = "recv"
  /\ UNCHANGED << messages, closed, logWriterFinished, logCount, dropCount,
                  cfgVars, teeq, prodVars, wheld, went, cpc, crashed,
                  histVars >>
  /\ UNCHANGED << polVars, drainVars, qres, sinkVars, fmtVars >>

\* ------------------------------------------------- logWriter, the sink
\* logWriter's choice of the write function, one read of a package variable
\* at a time.  The setters write stdhdl and customSock from other goroutines
\* without synchronisation.
\*   if stdhdl != nil { write = writeStd }
WChooseStd ==
  /\ ~crashed
  /\ wpc = "write"
  /\ wsink = "none"
  /\ wsink' = IF stdhdl THEN "std" ELSE "reading"
  /\ wseen' = {SelectSink(stdhdl, customSock)}
  /\ UNCHANGED << poolVars, closed, logWriterFinished, cntVars, cfgVars, teeq,
                  prodVars, wrVars, cpc, crashed, histVars >>
  /\ UNCHANGED << polVars, drainVars, sizeVars, fmtVars >>

\*   else if customSock == nil { write = writeSyslog }
\*   else { write = writeCustomSocket }
WChooseSock ==
  /\ ~crashed
  /\ wpc = "write"
  /\ wsink = "reading"
  /\ wsink' = IF customSock = "nil" THEN "syslog" ELSE "sock"
  /\ UNCHANGED << poolVars, closed, logWriterFinished, cntVars, cfgVars, teeq,
                  prodVars, wrVars, cpc, crashed, histVars >>
  /\ UNCHANGED << polVars, drainVars, sizeVars, wseen, fmtVars >>

\*   if err := write(msg); err != nil { errCount++ }
\* writeCustomSocket calls customSock.Write: a nil customSock, left by a
\* SetCustomSocket whose dial failed after the choice, panics
WWriteTo(ok) ==
  /\ ~crashed
  /\ wpc = "write"
  /\ wsink \in {"std", "syslog", "sock"}
  /\ IF wsink = "sock" /\ customSock = "nil"
     THEN /\ crashed' = TRUE
          /\ UNCHANGED << written, errCount, wpc, wsink, wseen >>
     ELSE /\ written' = Append(written, msgArr[wmsg].text)
          /\ errCount' = IF ok THEN errCount ELSE errCount + 1
          /\ wpc' = "free"
          /\ wsink' = "none"
          /\ wseen' = {}
          /\ UNCHANGED crashed
  /\ UNCHANGED << poolVars, closed, logWriterFinished, logCount, dropCount,
                  cfgVars, teeq, prodVars, wmsg, wtee, wheld, went, cpc,
                  pushed >>
  /\ UNCHANGED << polVars, drainVars, sizeVars, fmtVars >>

\* -------------------------------------------------------------- setFormat
\* the letters the values of KENTIK_LOG_FMT are made of
Letters == {"j", "s", "o", "n", "J", "S", "O", "N", "x"}

\* the strings of at most n letters
Strings(n) == UNION { [1..k -> Letters] : k \in 0..n }

\* strings.ToLower, letter by letter
LowerLetter(c) ==
  CASE c = "J" -> "j" [] c = "S" -> "s" [] c = "O" -> "o" [] c = "N" -> "n"
    [] OTHER -> c
ToLower(v) == [i \in 1..Len(v) |-> LowerLetter(v[i])]

\* the string "json"
Json == << "j", "s", "o", "n" >>

\* os.Getenv("KENTIK_LOG_FMT"): the value, or "" when the variable is unset
Getenv == IF env.set THEN env.val ELSE << >>

\* the environment the process is started in: KENTIK_LOG_FMT set to val
Setenv(val) ==
  /\ env = NoEnv
  /\ env' = [set |-> TRUE, val |-> val, read |-> FALSE]
  /\ UNCHANGED << poolVars, closed, logWriterFinished, cntVars, cfgVars, teeq,
                  prodVars, wrVars, cpc, crashed, histVars >>
  /\ UNCHANGED << polVars, drainVars, sizeVars, sinkVars, format, txt >>

\* setFormat, called by setup():
\*   format = asString
\*   if os.Getenv("KENTIK_LOG_FMT") == "json" { format = asJSON }
SetFormat ==
  /\ ~env.read
  /\ format' = IF Getenv = Json THEN "asJSON" ELSE "asString"
  /\ env' = [env EXCEPT !.read = TRUE]
  /\ UNCHANGED << poolVars, closed, logWriterFinished, cntVars, cfgVars, teeq,
                  prodVars, wrVars, cpc, crashed, histVars >>
  /\ UNCHANGED << polVars, drainVars, sizeVars, sinkVars, txt >>

\* ------------------------------------------------ render and write*, bytes
\* The bytes of one message: "a" is any byte that is not a line terminator,
\* "nl" is '\n', "nul" is the byte 0, "h" stands for the header
\* "[Level] prefix<file: line> " and "t" for the leader "time logname".
NL == "nl"

\* the texts fmt.Fprintf(lm, le.fmt, le.fmtV...) can produce, up to n bytes
Texts(n) == UNION { [1..k -> {"a", NL}] : k \in 0..n }

\* asString(lm, addLeader): the leader if asked for, the header, the text
AsString(text, addLeader) ==
  (IF addLeader THEN << "t" >> ELSE << >>) \o << "h" >> \o text

\* ---- variant of trimNewLines used to test the properties below ----
\* trimNewLines leaving one '\n' at the end (adding it when there is none)
TrimNewLines_KeepOne(bs) ==
  LET l == Len(bs)
      RECURSIVE Count(_)
      Count(cnt) == IF cnt < l /\ bs[l - cnt] = NL THEN Count(cnt + 1) ELSE cnt
      cnt == Count(0)
  IN  IF cnt = 0 THEN Append(bs, NL)
      ELSE IF cnt = 1 THEN bs
      ELSE SubSeq(bs, 1, l - cnt + 1)

\* trimNewLines taking off one '\n' at most
TrimNewLines_AtMostOne(bs) ==
  LET l == Len(bs)
  IN  IF 0 < l /\ bs[l] = NL THEN SubSeq(bs, 1, l - 1) ELSE bs

\* trimNewLines:
\*   for ; cnt < l && bs[li-cnt] == '\n'; cnt++ {}
\*   lm.Truncate(l - cnt)
TrimNewLines(bs) ==
  LET l == Len(bs)
      RECURSIVE Count(_)
      Count(cnt) == IF cnt < l /\ bs[l - cnt] = NL THEN Count(cnt + 1) ELSE cnt
  IN  SubSeq(bs, 1, l - Count(0))

\* render(msg, le) in text mode: format(msg, stdhdl != nil), trimNewLines(msg)
TextRender(text, addLeader) ==
  /\ txt.pc = "none"
  /\ txt' = [pc |-> "rendered", in |-> text, leader |-> addLeader,
             buf |-> TrimNewLines(AsString(text, addLeader)), sink |-> "none"]
  /\ UNCHANGED << poolVars, closed, logWriterFinished, cntVars, cfgVars, teeq,
                  prodVars, wrVars, cpc, crashed, histVars >>
  /\ UNCHANGED << polVars, drainVars, sizeVars, sinkVars, env, format >>

\* writeStd: msg.WriteByte('\n'); writeSyslog and writeCustomSocket:
\* msg.WriteByte(0).  The leader is written only when stdhdl was set at
\* render, and stdhdl stays set.
TextWrite(sink) ==
  /\ txt.pc = "rendered"
  /\ txt.leader => sink = "std"
  /\ txt' = [txt EXCEPT !.pc = "written", !.sink = sink,
                        !.buf = Append(@, IF sink = "std" THEN NL ELSE "nul")]
  /\ UNCHANGED << poolVars, closed, logWriterFinished, cntVars, cfgVars, teeq,
                  prodVars, wrVars, cpc, crashed, histVars >>
  /\ UNCHANGED << polVars, drainVars, sizeVars, sinkVars, env, format >>

\* Test_trimNewLines: a fresh logMessage is filled with bs (fmt.Fprint) and
\* handed to trimNewLines; what the buffer holds afterwards is compared with
\* the input
TrimCall(bs) ==
  /\ txt.pc \in {"none", "trimmed"}
  /\ txt' = [pc |-> "trimmed", in |-> bs, leader |-> FALSE,
             buf |-> TrimNewLines(bs), sink |-> "none"]
  /\ UNCHANGED << poolVars, closed, logWriterFinished, cntVars, cfgVars, teeq,
                  prodVars, wrVars, cpc, crashed, histVars >>
  /\ UNCHANGED << polVars, drainVars, sizeVars, sinkVars, env, format >>

\* ------------------------------------------------ freeMsg, called again
\* freeMsg(&msgArr[b]) called for a buffer that is in the free set already
\* (a double release): the case freeMsg's default branch is there for.
\* (max caps the number of overflows of a run.)
FreeMsgCall(b, max) ==
  /\ ~crashed
  /\ errCount < max
  /\ \E i \in 1..Len(freeMessages) : freeMessages[i] = b
  /\ FreeMsg(b, bsize[b], msgArr[b], errCount)
  /\ UNCHANGED << messages, closed, logWriterFinished, logCount, dropCount,
                  cfgVars, teeq, prodVars, wrVars, cpc, crashed, histVars >>
  /\ UNCHANGED << polVars, drainVars, qres, sinkVars, fmtVars >>

\* ------------------------------------------------------------ specification
\* one iteration step of logWriter's loop
LoopBody ==
  \/ WRecv
  \/ WOffer
  \/ WWarnAcquire
  \/ WWarnRender
  \/ WWarnPush
  \/ \E ok \in BOOLEAN : WWrite(ok)
  \/ WFree

\* the logWriter goroutine
LogWriter == LoopBody \/ WExit

\* the callers of the log methods and the owner of the tee
Callers ==
  \/ \E p \in Producers, c \in Calls : LogRejected(p, c)
  \/ \E p \in Producers, c \in Calls : QAcquire(p, c)
  \/ \E p \in Producers : QRender(p)
  \/ \E p \in Producers : QPush(p)
  \/ \E tee \in {"nil", "ch"} : SetTee(tee)
  \/ TeeRecv

\* The pipeline with the sink left as setup() made it (the system facility):
\* callers, logWriter, and Close up to its close(messages).
Next ==
  \/ Callers
  \/ LogWriter
  \/ CloseCall

Spec == Init /\ [][Next]_vars

\* The same with Close's wait.  logWriter is a goroutine of its own and every
\* sink write returns: it keeps taking steps while it has one to take.
NextClose ==
  \/ Next
  \/ CloseReturn
  \/ CloseCancel

FairSpec == Init /\ [][NextClose]_vars /\ WF_vars(LogWriter)

\* the same pipeline when Close is never called
NextNoClose == Callers \/ LoopBody

SpecNoClose == Init /\ [][NextNoClose]_vars /\ WF_vars(LoopBody)

\* log.Infof on a logger made by New(Levels.Info)
Infof == [via |-> "Infof", l |-> New(LvlInfo), lvl |-> LvlInfo, tee |-> TRUE]

\* the steps of one DrainContext call once it is made
DrainStep(d) == DrainCond(d) \/ DrainLenFree(d) \/ DrainSleep(d)

\* the steps that end a log call in progress
Finish(p) == QRender(p) \/ QPush(p)

\* logWriter's loop when no tee is installed and the sink takes every write
Deliver == WRecv \/ WWrite(TRUE) \/ WFree

\* Draining: producers log with Infof, logWriter delivers, and goroutines
\* call DrainContext, with contexts that are done already, get cancelled
\* during the call, or stay live.  The goroutines run: log calls in progress
\* go on to their end, every sink write returns, the poll timers fire.
NextDrain ==
  \/ \E p \in Producers : logCount < DrainLogs /\ QAcquire(p, Infof)
  \/ \E p \in Producers : Finish(p)
  \/ Deliver
  \/ \E d \in Drainers, done \in BOOLEAN : DrainCall(d, done)
  \/ \E d \in Drainers : DrainCancel(d)
  \/ \E d \in Drainers : DrainStep(d)

DrainSpec ==
  /\ Init /\ [][NextDrain]_vars
  /\ WF_vars(Deliver)
  /\ WF_vars(\E p \in Producers : Finish(p))
  /\ WF_vars(\E d \in Drainers : DrainStep(d))

\* The level policy: producers call Printf at every level on the three
\* loggers while the application changes the threshold of `log`; the sink and
\* the tee are left as setup() made them.
NextLevel ==
  \/ \E p \in Producers, l \in LoggerNames, lvl \in LevelSet : LogCall(p, l, lvl)
  \/ \E p \in Producers : LogAccess(p, "OffLogger", MaxCalls)
  \/ \E p \in Producers : LogSample(p)
  \/ \E p \in Producers : QRender(p)
  \/ \E p \in Producers : QPush(p)
  \/ \E level \in LevelSet : SetLevel("log", level)
  \/ WRecv
  \/ WWrite(TRUE)
  \/ WFree

LevelSpec == Init /\ [][NextLevel]_vars

\* Access sampling: producers make Access calls on `log`, whose stride the
\* application has set, while it moves the threshold between the lowest
\* level, off and the highest level.
NextSample ==
  \/ \E p \in Producers : LogAccess(p, "log", MaxAccess)
  \/ \E p \in Producers : LogSample(p)
  \/ \E p \in Producers : QRender(p)
  \/ \E p \in Producers : QPush(p)
  \/ \E level \in {LvlAccess, LvlOff, LvlDebug} : SetLevel("log", level)
  \/ \E sample \in 0..MaxSample : SetAccessLogSample("log", sample)
  \/ WRecv
  \/ WWrite(TRUE)
  \/ WFree

SampleSpec == Init /\ [][NextSample]_vars

\* What queueMsg returns and what failures change: producers log with Infof,
\* the format function may fail, logWriter delivers to a sink whose writes
\* may fail.
NextSubmit ==
  \/ \E p \in Producers : Submit(p, MaxLogs)
  \/ \E p \in Producers, ok \in BOOLEAN : Render(p, ok, 1)
  \/ \E p \in Producers : Push(p)
  \/ WRecv
  \/ \E ok \in BOOLEAN : Write(ok)
  \/ Release

SubmitSpec == Init /\ [][NextSubmit]_vars

\* Sink selection: producers log with Infof while the application installs
\* the direct stream and dials (or fails to dial) the custom socket.
NextSink ==
  \/ \E p \in Producers : logCount < SinkLogs /\ QAcquire(p, Infof)
  \/ \E p \in Producers : Finish(p)
  \/ WRecv
  \/ WChooseStd
  \/ WChooseSock
  \/ WWriteTo(TRUE)
  \/ WFree
  \/ SetStdOut
  \/ \E ok \in BOOLEAN : SetCustomSocket(ok)

SinkSpec == Init /\ [][NextSink]_vars

\* The render mode: the process is started with KENTIK_LOG_FMT unset or set
\* to a string of letters, and setup() calls setFormat.
NextFormat ==
  \/ env = NoEnv /\ \E val \in Strings(MaxEnvLen) : Setenv(val)
  \/ SetFormat

FormatSpec == Init /\ [][NextFormat]_vars

\* Text mode, byte by byte: one message is rendered from a text with any
\* number of line terminators in it and written by one of the write functions.
NextText ==
  \/ \E text \in Texts(MaxText), addLeader \in BOOLEAN :
       TextRender(text, addLeader)
  \/ \E sink \in {"std", "syslog", "sock"} : TextWrite(sink)

TextSpec == Init /\ [][NextText]_vars

\* Rejection: producers call Printf on `log` at every level, Access
\* included, while the application sets the stride and moves the threshold.
NextReject ==
  \/ \E p \in Producers, lvl \in LevelSet : LogCall(p, "log", lvl)
  \/ \E p \in Producers : LogAccess(p, "log", MaxCalls)
  \/ \E p \in Producers : LogSample(p)
  \/ \E p \in Producers : Finish(p)
  \/ \E level \in {LvlOff, LvlWarn, LvlDebug} : SetLevel("log", level)
  \/ \E sample \in 0..MaxSample : SetAccessLogSample("log", sample)
  \/ Deliver

RejectSpec == Init /\ [][NextReject]_vars

\* Releases that should not happen: the pipeline delivers Infof calls while
\* some goroutine calls freeMsg for buffers that are free already.
NextFree ==
  \/ \E p \in Producers : Submit(p, FreeLogs)
  \/ \E p \in Producers : Render(p, TRUE, 1)
  \/ \E p \in Producers : Push(p)
  \/ WRecv
  \/ Write(TRUE)
  \/ Release
  \/ \E b \in Buffers : FreeMsgCall(b, MaxOverflows)

FreeSpec == Init /\ [][NextFree]_vars

\* Buffer sizes: producers log messages of 1..MaxBytes bytes, the format
\* function may fail after writing them, logWriter delivers.
NextReclaim ==
  \/ \E p \in Producers : Submit(p, ReclaimLogs)
  \/ \E p \in Producers, ok \in BOOLEAN, n \in 1..MaxBytes : Render(p, ok, n)
  \/ \E p \in Producers : Push(p)
  \/ WRecv
  \/ Write(TRUE)
  \/ Release

ReclaimSpec == Init /\ [][NextReclaim]_vars

\* Configuration and lifecycle calls next to a small pipeline: one producer
\* logs with Infof and logWriter delivers, while the application sets the
\* log name, the sinks, the tee, the threshold and the stride of `log`,
\* reads the statistics, drains and closes.
Configure ==
  \/ \E ok \in BOOLEAN : SetLogName(ok, MaxNameErrs)
  \/ \E ok \in BOOLEAN : SetCustomSocket(ok)
  \/ SetStdOut
  \/ \E tee \in {"nil", "ch"} : SetTee(tee)
  \/ SetLevel("log", LvlOff)
  \/ SetAccessLogSample("log", 0)
  \/ Stats

Lifecycle ==
  \/ DrainCall(1, FALSE)
  \/ DrainStep(1)
  \/ CloseCall
  \/ CloseReturn

NextConfig ==
  \/ logCount < ConfigLogs /\ QAcquire(1, Infof)
  \/ Finish(1)
  \/ LogWriter
  \/ TeeRecv
  \/ Configure
  \/ Lifecycle

ConfigSpec == Init /\ [][NextConfig]_vars

\* The outcomes of queueMsg: producers log with Infof, the format function
\* may fail, logWriter delivers to a sink that takes every write, so that
\* every increment of errCount is made by queueMsg.
NextAccount ==
  \/ \E p \in Producers : Submit(p, AccountLogs)
  \/ \E p \in Producers, ok \in BOOLEAN : Render(p, ok, 1)
  \/ \E p \in Producers : Push(p)
  \/ WRecv
  \/ Write(TRUE)
  \/ Release

AccountSpec == Init /\ [][NextAccount]_vars

\* trimNewLines alone, on buffers of every content up to MaxTrim bytes, the
\* empty one and those made of line terminators only included.
NextTrim == \E bs \in Texts(MaxTrim) : TrimCall(bs)

TrimSpec == Init /\ [][NextTrim]_vars

\* ================================================================ properties
Range(q) == { q[i] : i \in 1..Len(q) }

\* how many times buffer b occurs in queue q
Occ(q, b) == Cardinality({ i \in 1..Len(q) : q[i] = b })

\* buffers held by a producer between its receive from freeMessages and its
\* send on messages, or by logWriter between its receive and freeMsg
InFlight ==
  Cardinality({ p \in Producers : held[p] # NoBuf })
    + (IF wmsg # NoBuf THEN 1 ELSE 0) + (IF wheld # NoBuf THEN 1 ELSE 0)

\* C1: free-set size + pending-set size + buffers in flight = NumMessages in
\* every reachable state (no buffer leaked, none counted twice).
C1_PoolConserved ==
  Len(freeMessages) + Len(messages) + InFlight = NumMessages

\* C1 witness: a producer and logWriter hold a buffer each at the same time
C1_Witness == wmsg # NoBuf /\ \E p \in Producers : held[p] # NoBuf

\* the number of places buffer b is in
Owners(b) ==
  Occ(freeMessages, b) + Occ(messages, b)
    + Cardinality({ p \in Producers : held[p] = b })
    + (IF wmsg = b THEN 1 ELSE 0) + (IF wheld = b THEN 1 ELSE 0)

\* C2: every pooled buffer is in exactly one place (free queue, one producer,
\* pending queue, logWriter), and a producer about to render holds a buffer
\* that is neither pending nor in logWriter's hands.
C2_SingleOwner ==
  /\ \A b \in Buffers : Owners(b) = 1
  /\ \A p \in Producers :
       pc[p] = "render" =>
         /\ held[p] \in Buffers
         /\ held[p] \notin Range(messages)
         /\ held[p] # wmsg /\ held[p] # wheld

\* C2 witness: a producer is about to render while logWriter is inside the
\* write of another buffer
C2_Witness ==
  \E p \in Producers :
    /\ pc[p] = "render"
    /\ wpc = "write"
    /\ wmsg # NoBuf

\* the steps a log call takes by itself
OwnStep(p) ==
  \/ \E c \in Calls : QAcquire(p, c)
  \/ QRender(p)
  \/ QPush(p)

\* a log call can always take its next step: no state of the other goroutines
\* makes it wait
NeverWaits ==
  \A p \in Producers :
    (~crashed /\ (pc[p] # "idle" \/ logCount < MaxLogs)) => ENABLED OwnStep(p)

\* C3 as stated: a submit never waits, and it ends ok, dropped or in an error
\* (never by a panic).
C3_NeverWaitsOkDroppedError ==
  /\ NeverWaits
  /\ \A p \in Producers : pc[p] # "panicked"

\* C3 amended: a submit never waits; it ends ok, dropped or in an error, or,
\* only when Close has closed the messages channel, by panicking at its send.
C3_NeverWaits ==
  /\ NeverWaits
  /\ \A p \in Producers : pc[p] = "panicked" => closed

\* C3 witness: the free queue is empty and logWriter is inside a sink write
\* when a submit ends as a drop
C3_Witness ==
  /\ freeMessages = << >>
  /\ wpc = "write"
  /\ dropCount > 0
  /\ \E p \in Producers : pc[p] = "idle"

\* logWriter has received nothing from messages so far
NothingDequeued == written = << >> /\ wmsg = NoBuf

\* C4: after M > NumMessages submits that passed the policy, all returned,
\* with nothing dequeued, dropCount = M - NumMessages and NumMessages buffers
\* are pending.
C4_DropsAreTheExcess ==
  (/\ NothingDequeued
   /\ \A p \in Producers : pc[p] = "idle"
   /\ logCount > NumMessages)
    => /\ dropCount = logCount - NumMessages
       /\ Len(messages) = NumMessages

\* C4 witness: more submits than buffers have returned, nothing dequeued
C4_Witness ==
  /\ NothingDequeued
  /\ \A p \in Producers : pc[p] = "idle"
  /\ logCount > NumMessages
  /\ dropCount > 0

\* C6: sink writes happen in the order of the sends on messages: the sequence
\* of written messages is a prefix of the sequence of pushed messages.
C6_WrittenInPushOrder ==
  /\ Len(written) <= Len(pushed)
  /\ \A i \in 1..Len(written) : written[i] = pushed[i]

\* C6 witness: two messages written, pushed in the opposite order of their
\* calls
C6_Witness == Len(written) >= 2 /\ written[1] > written[2]

\* the ids a message can have (logWriter's warnings take ids too)
MsgIds == 1..(2 * MaxLogs)

\* C5: without Close, every message sent on messages gets its sink write
\* attempted exactly once: eventually (logWriter keeps running, writes
\* return), and never a second time, whether the write succeeds or fails.
\* (pushed and written only grow, so "m is eventually written once pushed" is
\* "again and again, m is written if it is pushed".)
C5_WrittenExactlyOnce ==
  /\ [](\A i, j \in 1..Len(written) : i # j => written[i] # written[j])
  /\ \A m \in MsgIds : []<>(m \in Range(pushed) => m \in Range(written))

\* C5 witness: a sink write has failed and every message pushed so far (two
\* at least) has been written
C5_Witness ==
  /\ Len(pushed) >= 2
  /\ Range(pushed) = Range(written)
  /\ errCount > 0

\* C7: when the tee is full at the delivery of a tee-eligible message,
\* logWriter goes on: it is not stopped before the sink write, and by the time
\* it releases the buffer the message has been written.
C7_TeeFullStillDelivered ==
  wtee = "full" =>
    /\ wpc # "panicked"
    /\ wpc = "free" =>
         /\ written # << >>
         /\ written[Len(written)] = msgArr[wmsg].text

\* the entry came through a Logger method (not LogNoTee)
ViaLogger(le) == ~le.isNil /\ le.via # "LogNoTee"

\* C8: a message submitted through LogNoTee never reaches writeTee; a message
\* submitted through a Logger method reaches writeTee exactly when logTee is
\* set at the moment logWriter takes the message up.
C8_TeeOnlyForLoggerCalls ==
  /\ []((wpc = "offer" \/ wtee # "none") => ViaLogger(msgArr[wmsg].le))
  /\ [][(wmsg = NoBuf /\ wmsg' # NoBuf) =>
          ((wpc' = "offer") <=>
             (logTee # "nil" /\ ViaLogger(msgArr[wmsg'].le)))]_vars

\* C8 witness: a message logged with Infof has been handed to the tee
C8_Witness == wtee = "sent" /\ msgArr[wmsg].le.via = "Infof"

\* C9: after Close, logWriter delivers what is pending and eventually signals
\* completion, whatever the tee configuration.  (Left aside: a producer whose
\* own send after Close has ended the process, and a SetTee(nil) racing with
\* the tee offer.)
C9_CloseCompletes ==
  closed ~> \/ logWriterFinished
            \/ \E p \in Producers : pc[p] = "panicked"
            \/ wtee = "nil"

\* C10: a log call that passes the policy after Close has closed messages
\* never returns normally: it is neither dropped nor accepted.
C10_LogAfterClosePanics ==
  [][(closed /\ wpc # "warn") =>
       /\ dropCount' = dropCount
       /\ \A p \in Producers :
            afterClose[p] => pc'[p] \in {"render", "push", "panicked"}]_vars

\* ------------------------------------------------------------ level policy
\* the levels other than Access: off < panic < error < warn < info < debug
OrderedLevels == LevelSet \ {LvlAccess}

\* the call made in this step went on to queueMsg
Accepted == logCount' = logCount + 1

\* C15 as stated: a call at an ordered level L on a logger of threshold T is
\* accepted if and only if T >= L and T is not off.
C15_AcceptedIffThresholdNotOff ==
  [][\A p \in Producers, L \in OrderedLevels :
       LogCall(p, "log", L) =>
         (Accepted <=> (loggers["log"].level >= L
                          /\ loggers["log"].level # LvlOff))]_vars

\* C15 amended: a call at an ordered level L on a logger of threshold T is
\* accepted if and only if T >= L and L is not off (a call at level off is
\* rejected under every threshold; a threshold of off accepts nothing).
C15_AcceptedIffLevelNotOff ==
  [][\A p \in Producers, L \in OrderedLevels :
       LogCall(p, "log", L) =>
         /\ Accepted <=> (loggers["log"].level >= L /\ L # LvlOff)
         /\ loggers["log"].level = LvlOff => ~Accepted]_vars

\* C15 witness: calls on `log` were made under a threshold the application
\* set, one of them accepted and one rejected
C15_Witness ==
  /\ last = [n |-> MaxCalls, l |-> "log"]
  /\ loggers["log"].level = LvlWarn
  /\ logCount = 1
  /\ \A p \in Producers : pc[p] = "idle"

\* the free set, the pending set and the three counters are as they were
PoolAndCountersUnchanged ==
  UNCHANGED << freeMessages, messages, logCount, dropCount, errCount >>

\* C18: a log call at any level on a nil *Logger returns normally (no panic)
\* and leaves the free set, the pending set and all counters unchanged.
C18_NilLoggerNoOp ==
  [][\A p \in Producers, L \in LevelSet :
       LogCall(p, "nil", L) =>
         /\ pc'[p] = "idle"
         /\ ~crashed'
         /\ PoolAndCountersUnchanged]_vars

\* C18 witness: the latest call was made on the nil logger while messages
\* of other loggers were pending and being written
C18_Witness ==
  /\ last.l = "nil" /\ last.n > 1
  /\ messages # << >>
  /\ wpc = "write"
  /\ \A p \in Producers : pc[p] = "idle"

\* the step is the end of a log call on OffLogger: Logger.log returning from
\* its switch or going on into queueMsg
OffLoggerCall(p) ==
  \/ \E L \in LevelSet : LogCall(p, "OffLogger", L)
  \/ LogSample(p) /\ lcall[p].l = "OffLogger"

\* C19: no log call on OffLogger, at any level, acquires a buffer, enqueues a
\* message or changes a counter.
C19_OffLoggerNoOp ==
  [][\A p \in Producers :
       OffLoggerCall(p) =>
         /\ held'[p] = NoBuf
         /\ PoolAndCountersUnchanged]_vars

\* the step is the end of Logger.log's switch for a call on a non-nil logger
SubmitStep(p) ==
  \/ \E l \in LoggerNames \ {"nil"}, L \in LevelSet : LogCall(p, l, L)
  \/ LogSample(p)

\* C20: every log call on a non-nil logger increments logCount by exactly
\* one, whether the Level Policy accepts the call or rejects it.
C20_EveryCallCounted ==
  [][\A p \in Producers : SubmitStep(p) => logCount' = logCount + 1]_vars

\* -------------------------------------------------------- access sampling
\* the stride of `log` and the outcomes of its Access calls, by call count
Stride == loggers["log"].sample
Outcomes == accLog["log"]

\* C16: with a stride K >= 1, every K Access calls with consecutive counts
\* (made by any producers, decided in any order) hold exactly one accepted
\* call; so a run of n*K calls holds exactly n.
C16_OneInEveryStride ==
  Stride >= 1 =>
    /\ \A i \in 1..Len(Outcomes) :
         (/\ i + Stride - 1 <= Len(Outcomes)
          /\ \A j \in i..(i + Stride - 1) : Outcomes[j] # "pending")
           => Cardinality({ j \in i..(i + Stride - 1) :
                              Outcomes[j] = "accepted" }) = 1
    /\ (/\ Len(Outcomes) % Stride = 0
        /\ \A j \in 1..Len(Outcomes) : Outcomes[j] # "pending")
         => Cardinality({ j \in 1..Len(Outcomes) : Outcomes[j] = "accepted" })
              = Len(Outcomes) \div Stride

\* C16 witness: all the calls of a run with the largest stride are decided,
\* at least twice the stride of them
C16_Witness ==
  /\ Stride = MaxSample
  /\ Len(Outcomes) >= 2 * MaxSample
  /\ \A j \in 1..Len(Outcomes) : Outcomes[j] # "pending"
  /\ \E j \in 1..Len(Outcomes) : Outcomes[j] = "accepted"

\* C17: whether an Access call is accepted depends on the stride K and on the
\* count the call obtained only, under every threshold: never with K = 0,
\* always with K = 1; and a rejected call acquires no buffer.
C17_AccessBySampleOnly ==
  [][\A p \in Producers :
       (LogSample(p) /\ lcall[p].l = "log") =>
         /\ Accepted <=> (Stride # 0 /\ lcall[p].count % Stride = 0)
         /\ Stride = 0 => ~Accepted
         /\ Stride = 1 => Accepted
         /\ ~Accepted => (held'[p] = NoBuf /\ freeMessages' = freeMessages)
    ]_vars

\* C17 witness: under a threshold of off and a stride of 2, the first Access
\* call was rejected and the second has just been accepted
C17_Witness ==
  /\ loggers["log"].level = LvlOff
  /\ Stride = 2
  /\ Outcomes = << "rejected", "accepted" >>
  /\ \E p \in Producers : pc[p] = "render"

\* ---------------------------------------------------------------- Close
\* C11: Close returns nil only when logWriter has closed logWriterFinished;
\* when its wait ends before that, it returns the context's error; and once
\* Close has closed messages, messages stays closed, whatever Close returns.
C11_CloseResult ==
  /\ [](cpc = "nil" => logWriterFinished)
  /\ [][(cpc = "wait" /\ cpc' # "wait" /\ ~logWriterFinished)
          => cpc' = "err"]_vars
  /\ [](cpc \in {"wait", "nil", "err"} => closed)
  /\ [][closed => closed']_vars

\* C11 witness: Close has returned nil after logWriter delivered two messages
\* and left its loop
C11_Witness ==
  /\ cpc = "nil"
  /\ Len(written) >= 2
  /\ wpc = "finished"

\* --------------------------------------------------------- DrainContext
\* no buffer is pending, claimed by a producer or in logWriter's hands: the
\* pending set is empty and the free set holds all NumMessages buffers
Drained ==
  /\ messages = << >>
  /\ Len(freeMessages) = NumMessages
  /\ InFlight = 0

\* C12: DrainContext returns nil only at an instant of the call at which the
\* pending set is empty and the free set holds every buffer.
C12_DrainNilOnlyWhenDrained ==
  [][\A d \in Drainers :
       (dpc[d] # "nil" /\ dpc'[d] = "nil") => (Drained /\ dctx[d] = "live")
    ]_vars

\* C12 witness: a DrainContext call has returned nil, two messages have been
\* delivered and every buffer is back in the free set
C12_Witness ==
  /\ \E d \in Drainers : dpc[d] = "nil"
  /\ Len(written) >= 2
  /\ Drained

\* C13: once producers stop and sink writes return, every DrainContext call
\* whose context stays live returns nil, several concurrent calls included.
\* (A call that returned stays returned and a context that is done stays
\* done, so "every call eventually returns" is "again and again, every call
\* made so far has returned".)
C13_DrainEventuallyReturns ==
  []<>(\A d \in Drainers : dpc[d] \in {"idle", "nil"} \/ dctx[d] # "live")

\* C13 witness: all the callers have returned nil, the producers have made
\* all their calls and a full pool of messages has been delivered
C13_Witness ==
  /\ \A d \in Drainers : dpc[d] = "nil"
  /\ logCount = DrainLogs
  /\ Len(written) = DrainLogs

\* C14: a DrainContext call made with a context that is already done returns
\* the context's error in its first step, without sleeping, and leaves the
\* pending set, the free set and the counters as they are.
C14_ExpiredReturnsAtOnce ==
  /\ [](\A d \in Drainers : dctx[d] = "expired" => dpc[d] \in {"loop", "err"})
  /\ [][\A d \in Drainers :
          (dctx[d] = "expired" /\ dpc'[d] # dpc[d])
            => (dpc'[d] = "err" /\ PoolAndCountersUnchanged)]_vars

\* C14 witness: a call made with a done context has returned the error while
\* messages were pending
C14_Witness ==
  \E d \in Drainers :
    /\ dctx[d] = "expired"
    /\ dpc[d] = "err"
    /\ messages # << >>

\* ------------------------------------------------------------------ C21
\* The call whose acquire found the free set empty
Dropped(p) == Submit(p, MaxLogs) /\ dropCount' = dropCount + 1

\* C21: when submit drops a call because the free set is empty, it returns
\* an error: a result that is not the one it returns on success
C21_DropReturnsError ==
  [][\A p \in Producers : Dropped(p) => qres'[p] # "nil"]_vars

\* ------------------------------------------------------------------ C26
\* C26: when rendering fails, queueMsg adds one to errCount, hands the
\* cleared buffer back to the free set, pushes nothing, leaves dropCount as
\* it is and returns the rendering error
C26_RenderFailure ==
  [][\A p \in Producers :
       Render(p, FALSE, 1) =>
         /\ errCount' = errCount + 1
         /\ freeMessages' = Append(freeMessages, held[p])
         /\ msgArr'[held[p]].text = 0
         /\ bsize'[held[p]].len = 0
         /\ held'[p] = NoBuf
         /\ messages' = messages /\ pushed' = pushed
         /\ dropCount' = dropCount
         /\ qres'[p] = "renderErr"]_vars

\* a call has returned the rendering error, its buffer is free again and
\* a later call went on to deliver
C26_Witness ==
  /\ \E p \in Producers : qres[p] = "renderErr" /\ pc[p] = "idle"
  /\ errCount = 1 /\ dropCount = 0
  /\ Len(freeMessages) = NumMessages
  /\ written # << >>

\* ------------------------------------------------------------------ C22
\* C22: the sink logWriter has chosen for a message is the one the
\* configuration selected at some moment of the choice (direct stream if
\* set, else custom socket if set, else system facility), whatever the
\* configuration was when the message was submitted
C22_SinkOfDeliveryTime ==
  wsink \in {"std", "syslog", "sock"} => wsink \in wseen

\* ------------------------------------------------------------------ C23
\* C23: the render mode setFormat has installed is JSON when KENTIK_LOG_FMT is
\* unset, empty or "json" in any letter case, and text for every other value
C23_JsonUnlessOtherValue ==
  env.read =>
    (format = "asJSON" <=>
       (~env.set \/ env.val = << >> \/ ToLower(env.val) = Json))

\* ------------------------------------------------------------------ C24
\* the number of line terminators s ends with
RECURSIVE Trailing(_)
Trailing(s) ==
  IF s # << >> /\ s[Len(s)] = NL
  THEN 1 + Trailing(SubSeq(s, 1, Len(s) - 1))
  ELSE 0

\* s without the line terminators it ends with (strings.TrimRight(s, "\n"))
TrimRight(s) == SubSeq(s, 1, Len(s) - Trailing(s))

Rejected(p) ==
  \/ \E lvl \in LevelSet :
       LogCall(p, "log", lvl) /\ ~PolicyPass(loggers["log"], lvl, 0)
  \/ /\ LogSample(p)
     /\ ~PolicyPass(loggers[lcall[p].l], LvlAccess, lcall[p].count)

\* C25: a call the Level Policy rejects, by the threshold or by sampling,
\* leaves the free set, the pending set, dropCount and errCount as they were,
\* and the caller holds no buffer
C25_RejectionTouchesNothing ==
  [][\A p \in Producers :
       Rejected(p) =>
         /\ UNCHANGED << freeMessages, messages, dropCount, errCount >>
         /\ held'[p] = NoBuf]_vars

\* two calls were rejected by the threshold and one by sampling; nothing was
\* taken from the pool and nothing counted
C25_Witness ==
  /\ last.n = 3 /\ logCount = 0
  /\ accLog["log"] = << "rejected" >>
  /\ Len(freeMessages) = NumMessages /\ messages = << >>
  /\ dropCount = 0 /\ errCount = 0

\* ------------------------------------------------------------------ C27
\* C27: a failed sink write adds one to errCount and nothing else: the
\* message is written once, is not put back on the pending set, and
\* logWriter goes on to freeMsg, which (after a failed and after a successful
\* write alike) clears the buffer, appends it to the free set and leaves
\* logWriter ready for the next pending buffer
C27_WriteFailure ==
  [][/\ Write(FALSE) =>
          /\ errCount' = errCount + 1
          /\ Len(written') = Len(written) + 1
          /\ messages' = messages /\ freeMessages' = freeMessages
          /\ wmsg' = wmsg /\ wpc' = "free"
     /\ wpc = "free" /\ wpc' # wpc =>
          /\ freeMessages' = Append(freeMessages, wmsg)
          /\ msgArr'[wmsg].text = 0 /\ bsize'[wmsg].len = 0
          /\ errCount' = errCount /\ messages' = messages
          /\ wmsg' = NoBuf /\ wpc' = "recv"]_vars

\* two calls were rendered and pushed; one of the two writes failed, both
\* buffers are free again and logWriter waits for the next one
C27_Witness ==
  /\ logCount = 2 /\ Len(written) = 2 /\ errCount = 1
  /\ Len(freeMessages) = NumMessages
  /\ wpc = "recv"

\* ------------------------------------------------------------------ C28
\* freeMsg is called in this step, by logWriter or by some other goroutine
FreeMsgStep == Release \/ \E b \in Buffers : FreeMsgCall(b, MaxOverflows)

\* C28: freeMsg called while the free set is at capacity does not wait and
\* does not panic: it returns ErrFreeMessageOverflow, adds one to errCount
\* and leaves the free set as it was
C28_OverflowingRelease ==
  /\ [](~crashed /\ errCount < MaxOverflows =>
          \A b \in Range(freeMessages) : ENABLED FreeMsgCall(b, MaxOverflows))
  /\ [][FreeMsgStep /\ Len(freeMessages) = NumMessages =>
          /\ fres' = "ErrFreeMessageOverflow"
          /\ errCount' = errCount + 1
          /\ freeMessages' = freeMessages
          /\ ~crashed']_vars

\* a release found the free set full of the pool's buffers and returned the
\* overflow error
C28_Witness ==
  /\ fres = "ErrFreeMessageOverflow"
  /\ errCount = 1
  /\ freeMessages = [i \in 1..NumMessages |-> i]

\* ------------------------------------------------------------------ C29
\* C29: every buffer in the free set is empty and its capacity is at most
\* reclaimThreshold; freeMsg replaces a buffer whose capacity is above the
\* threshold by one of exactly that capacity and otherwise empties the buffer
\* and keeps its capacity
C29_FreeBuffersBounded ==
  /\ [](\A i \in 1..Len(freeMessages) :
          /\ bsize[freeMessages[i]].len = 0
          /\ bsize[freeMessages[i]].cap <= reclaimThreshold)
  /\ [][Release =>
          /\ bsize'[wmsg].len = 0
          /\ bsize'[wmsg].cap = IF bsize[wmsg].cap > reclaimThreshold
                                THEN reclaimThreshold
                                ELSE bsize[wmsg].cap]_vars

\* a message was delivered and an error counted; all buffers are free, one
\* with the threshold capacity next to one with a smaller capacity, not zero
C29_Witness ==
  /\ Len(freeMessages) = NumMessages
  /\ written # << >> /\ errCount > 0
  /\ \E i, j \in 1..NumMessages :
       /\ bsize[freeMessages[i]].cap = reclaimThreshold
       /\ bsize[freeMessages[j]].cap \in 1..(reclaimThreshold - 1)

\* ------------------------------------------------------------------ C30
\* C30: before Close, whenever a caller of queueMsg (a producer, or logWriter
\* for its warning) holds a rendered buffer, the pending set has room for it:
\* the branch that returns ErrLogFullBuf is not reached
C30_PendingHasRoom ==
  ~closed =>
    /\ \A p \in Producers : pc[p] = "push" => Len(messages) < NumMessages
    /\ wpc = "warnPush" => Len(messages) < NumMessages

\* every buffer but one is pending and a producer is about to push the last
C30_Witness ==
  /\ ~closed
  /\ \E p \in Producers : pc[p] = "push"
  /\ Len(messages) = NumMessages - 1

\* ------------------------------------------------------------------ C31
\* logWriter is inside the LogNoTee call that reports a failed tee offer
Warning == wpc \in {"warn", "warnRender", "warnPush"}

\* C31: logWriter submits a warning only after a failed tee offer, at most
\* one for it (from the warning it goes on to the sink write, never back to
\* the offer), always through LogNoTee and never tee-eligible; and while
\* logWriter delivers a warning it makes no tee offer and no warning
C31_NoWarningLoop ==
  /\ [](went # NoEntry => went.via = "LogNoTee" /\ ~went.tee)
  /\ [](wmsg # NoBuf /\ msgArr[wmsg].le.via = "LogNoTee" =>
          ~Warning /\ wpc # "offer" /\ wtee = "none")
  /\ [][/\ wpc' = "warn" /\ wpc # "warn" => wpc = "offer" /\ wtee' # "sent"
        /\ Warning /\ wpc' # wpc =>
             wpc' \in {"warnRender", "warnPush", "write", "panicked"}
        /\ wpc' # wpc =>
             \/ logCount' = logCount
             \/ wpc = "warn" /\ logCount' = logCount + 1]_vars

\* logWriter is writing a warning to the sink while the tee is installed and
\* still full: the warning was not offered to it
C31_Witness ==
  /\ wpc = "write"
  /\ msgArr[wmsg].le.via = "LogNoTee"
  /\ logTee # "nil" /\ Len(teeq) = TeeCap
  /\ wtee = "none"

\* ------------------------------------------------------------------ C32
\* C32: the message logWriter hands to a write function carries the leader
\* (time and log name) exactly when the function is writeStd, also when the
\* sink was changed while the message was pending
C32_LeaderIffDirectStream ==
  wpc = "write" /\ wsink \in {"std", "syslog", "sock"} =>
    (msgArr[wmsg].leader <=> wsink = "std")

\* ------------------------------------------------------------------ C33
\* a configuration call other than SetLogName, or a Drain, Close or Stats
\* step
OutsideCall ==
  \/ \E ok \in BOOLEAN : SetCustomSocket(ok)
  \/ SetStdOut
  \/ \E tee \in {"nil", "ch"} : SetTee(tee)
  \/ \E level \in LevelSet : SetLevel("log", level)
  \/ \E sample \in 0..MaxSample : SetAccessLogSample("log", sample)
  \/ Stats
  \/ Lifecycle

\* C33 as stated: no configuration call (SetLogName included) and no Drain,
\* Close or Stats call changes logCount, dropCount or errCount
C33_CountersOnlyInPipeline ==
  [][(OutsideCall \/ \E ok \in BOOLEAN : SetLogName(ok, MaxNameErrs))
       => UNCHANGED cntVars]_vars

\* C33, amended: no configuration call other than SetLogName and no Drain,
\* Close or Stats call changes a counter; SetLogName adds one to errCount
\* when no direct stream is set and openlog fails, and changes nothing else
C33_CountersOnlyInPipelineAndSetLogName ==
  [][/\ OutsideCall => UNCHANGED cntVars
     /\ \A ok \in BOOLEAN :
          SetLogName(ok, MaxNameErrs) =>
            /\ UNCHANGED << logCount, dropCount >>
            /\ errCount' = IF stdhdl \/ ok THEN errCount ELSE errCount + 1]_vars

\* SetLogName has failed once, and the pipeline has delivered a message and
\* been closed and drained without another error
C33_Witness ==
  /\ errCount = 1 /\ logCount = 1 /\ dropCount = 0
  /\ written # << >>
  /\ cpc = "nil" /\ dpc[1] = "nil"
  /\ stdhdl /\ customSock # "nil"

\* ------------------------------------------------------------------ C34
\* C34: a buffer in the pending or the free set is held by no submit in
\* progress (the push is submit's last step), so it holds no reference to a
\* log entry, and logWriter holds none after taking a buffer
C34_EntryNotStoredBeyondSubmit ==
  /\ \A b \in Range(messages) \cup Range(freeMessages) : msgArr[b].le.isNil
  /\ wmsg # NoBuf => msgArr[wmsg].le.isNil

\* ------------------------------------------------------------------ C35
\* C35: at the step at which a DrainContext call returns nil, every message
\* pushed so far (those pushed before the call began among them) has had its
\* sink write attempted, in the order pushed, and its buffer is back in the
\* free set: logWriter and the producers hold no buffer.
C35_DrainSuccessMeansDelivered ==
  [][\A d \in Drainers :
       (dpc[d] # "nil" /\ dpc'[d] = "nil") =>
         /\ written = pushed
         /\ \A b \in Buffers : Occ(freeMessages, b) = 1
         /\ wmsg = NoBuf /\ wpc = "recv"
         /\ \A p \in Producers : held[p] = NoBuf
    ]_vars

\* C35 witness: every log call of the run was pushed and written, each
\* producer has made one, and a DrainContext call has returned nil while
\* the context of another one ended
C35_Witness ==
  /\ \E d \in Drainers : dpc[d] = "nil"
  /\ \E d \in Drainers : dpc[d] = "err"
  /\ Len(pushed) = DrainLogs /\ written = pushed
  /\ logCount = DrainLogs /\ dropCount = 0

\* ------------------------------------------------------------------ C36
\* C36: whenever no queueMsg call is in progress, logCount = dropCount +
\* the errors queueMsg counted (render failures and ErrLogFullBuf) + the
\* number of messages pushed onto the pending set; sink writes succeed in
\* these runs, so errCount holds the errors of queueMsg only.
C36_AttemptsAccounted ==
  (\A p \in Producers : pc[p] = "idle") =>
    logCount = dropCount + errCount + Len(pushed)

\* C36 witness: no call in progress after four calls: two were pushed, one
\* was dropped for lack of a free buffer and one failed to render
C36_Witness ==
  /\ \A p \in Producers : pc[p] = "idle"
  /\ logCount = 4 /\ dropCount = 1 /\ errCount = 1 /\ Len(pushed) = 2

\* ------------------------------------------------------------------ C37
\* C37: after trimNewLines the buffer is the input cut before its maximal
\* trailing run of '\n': it is a prefix of the input, everything cut off is
\* '\n', and what stays is empty or ends with another byte, so that leading
\* and interior '\n' stay where they were; that is strings.TrimRight(in, "\n").
C37_TrimsAllAndOnlyTrailing ==
  txt.pc = "trimmed" =>
    LET n == Len(txt.in)
        k == Len(txt.buf)
    IN  /\ k <= n
        /\ txt.buf = SubSeq(txt.in, 1, k)
        /\ \A i \in (k + 1)..n : txt.in[i] = NL
        /\ k > 0 => txt.buf[k] # NL
        /\ txt.buf = TrimRight(txt.in)
        /\ (\A i \in 1..n : txt.in[i] = NL) => txt.buf = << >>

\* C37 witness: a buffer with a leading, an interior and two trailing line
\* terminators was trimmed: only the two at the end are gone
C37_Witness ==
  /\ txt.pc = "trimmed"
  /\ txt.in = << NL, "a", NL, "a", NL, NL >>
  /\ txt.buf = << NL, "a", NL, "a" >>

====
